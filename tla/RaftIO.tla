------------------------------- MODULE RaftIO -------------------------------
(***************************************************************************)
(* How one openraft node (vendored under octopii/openraft) turns what its  *)
(* engine decides into I/O.  The engine answers a request at once: it      *)
(* changes its state in memory and pushes commands.  RaftCore runs the     *)
(* commands one after the other, the storage and the state machine worker  *)
(* report back with notifications, and an answer waits until the I/O it    *)
(* promises is done.  Three cursors (accepted, submitted, flushed) follow  *)
(* the log, the state machine and the snapshot.                            *)
(*                                                                         *)
(* The node here is a follower; RaftCluster has the protocol between       *)
(* nodes.  A vote is a number: 2l for the candidate l, 2l+1 once l leads,  *)
(* which is the order of the votes.  A log id is <<leader, index>>, an     *)
(* IOId <<vote, log id>>; indexes start at 1 and NoId stands for None.     *)
(***************************************************************************)
EXTENDS Integers, FiniteSetsExt, SequencesExt

CONSTANTS LeaderLog,   \* the log of each leader: who wrote the entries
          CommitLimit  \* how far each leader commits

VARIABLES eng,      \* Engine: RaftState with its IOState, and its output
          pending,  \* PendingResponds: on_log_io, on_snapshot
          pc,       \* RaftCore waits ("idle"), runs commands ("run"), or
                    \* looks for progress driven ones ("apply")
          notes,    \* the notifications on their way to RaftCore
          smq,      \* the commands on their way to the state machine worker
          build,    \* a task is building a snapshot
          machine,       \* the state machine: applied entries, current snapshot
          store,     \* the log store
          up,       \* the node is "up" or "down", or "failed" to start
          answered, \* the successes that were answered
          offered,  \* how far the snapshots go that a leader has sent
          left,     \* how much of each input is still to come
          policy      \* whether snapshots outlive a crash, entries kept on purge

ioVars == <<eng, pending, pc, notes, smq, build, machine, store, up, answered, offered,
            left, policy>>

Leaders == DOMAIN LeaderLog

\* The entries that are committed at some time.
Chosen == SubSeq(LeaderLog[Len(LeaderLog)], 1, CommitLimit[Len(LeaderLog)])

ASSUME IOAssumption ==
  /\ \A l \in Leaders : CommitLimit[l] \in 0..Len(LeaderLog[l])
  /\ \A l \in Leaders, m \in Leaders : l <= m =>
       \A i \in 1..CommitLimit[l] : LeaderLog[m][i] = LeaderLog[l][i]

NoId == <<0, 0>>
LeaderVote(l) == 2 * l + 1
IdIn(l, i) == IF i = 0 THEN NoId ELSE <<LeaderLog[l][i], i>>

LogLess(a, b) == a[1] < b[1] \/ (a[1] = b[1] /\ a[2] < b[2])
LogLeq(a, b)  == a = b \/ LogLess(a, b)
IOLess(a, b)  == a[1] < b[1] \/ (a[1] = b[1] /\ LogLess(a[2], b[2]))
IOLeq(a, b)   == a = b \/ IOLess(a, b)
MinId(a, b)   == IF LogLess(a, b) THEN a ELSE b

\* IOId::new: a vote alone.
VoteIO(v) == <<v, NoId>>

-----------------------------------------------------------------------------
(* IOProgress: three cursors.                                              *)

new_synchronized(x) == [accepted |-> x, submitted |-> x, flushed |-> x]

\* try_update_all: every cursor that is behind.
try_update_all(p, x) == [c \in DOMAIN p |-> IF LogLess(p[c], x) THEN x ELSE p[c]]

-----------------------------------------------------------------------------
(* RaftState.                                                              *)

\* get_initial_state, on what the node has kept.
NewEngine(d, applied, snap, log, purged) ==
  [vote       |-> d.vote,
   log        |-> log,       \* index -> leader, from the last purged entry on
   purged     |-> purged,    \* last_purged_log_id
   log_io     |-> new_synchronized(VoteIO(d.vote)),
   apply_io   |-> new_synchronized(applied),
   snap_io    |-> new_synchronized(snap),
   io_purged  |-> purged,    \* IOState::purged: what the disk has purged
   snap       |-> snap,      \* snapshot_meta
   purge_upto |-> purged,
   cluster    |-> VoteIO(0), \* cluster_committed
   building   |-> FALSE,
   output     |-> <<>>]

IdAt(log, i) == IF i \in DOMAIN log THEN <<log[i], i>> ELSE NoId
LastId(log)  == IF DOMAIN log = {} THEN NoId ELSE IdAt(log, Max(DOMAIN log))

committed(e) == e.apply_io.accepted
IdIndex(id) == id[2]

\* Faulty: any entry of that index is taken for it.
BadHasLogId(e, id) ==
  id[2] <= IdIndex(committed(e)) \/ id[2] \in DOMAIN e.log

\* LogStateReader::has_log_id.
has_log_id(e, id) ==
  \/ id[2] <= IdIndex(committed(e))
  \/ id[2] \in DOMAIN e.log /\ IdAt(e.log, id[2]) = id

Push(e, cmd) == [e EXCEPT !.output = Append(@, cmd)]

accept_log_io(e, io) ==
  [e EXCEPT !.log_io.accepted = IF IOLess(@, io) THEN io ELSE @]

Respond(cond, id, answer) ==
  [kind |-> "Respond", cond |-> cond, id |-> id, answer |-> answer]

Reject == [kind |-> "reject"]

\* VoteHandler::update_vote of a vote that is not smaller than the own one.
update_vote(e, v) ==
  IF v > e.vote
  THEN Push(accept_log_io([e EXCEPT !.vote = v], VoteIO(v)),
            [kind |-> "SaveVote", vote |-> v])
  ELSE e

\* FollowingHandler::truncate_logs.
truncate_logs(e, i) ==
  IF i \notin DOMAIN e.log THEN e
  ELSE Push([e EXCEPT !.log = Restrict(@, {j \in DOMAIN @ : j < i})],
            [kind |-> "TruncateLog", since |-> i])

\* LogHandler::purge_log.
purge_log(e) ==
  IF LogLeq(e.purge_upto, e.purged) THEN e
  ELSE Push([e EXCEPT !.purged = e.purge_upto,
                      !.log = (IdIndex(e.purge_upto) :> e.purge_upto[1])
                                @@ Restrict(@, {j \in DOMAIN @ : j > IdIndex(e.purge_upto)})],
            [kind |-> "PurgeLog", upto |-> e.purge_upto])

\* IOState::calculate_local_committed: what is committed and accepted here, once
\* the vote of the leader that committed it is.
calculate_local_committed(accepted, cluster) ==
  IF accepted[1] % 2 = 1 /\ accepted[1] >= cluster[1]
  THEN MinId(accepted[2], cluster[2]) ELSE NoId

\* RaftState::update_committed.
update_committed(e, io) ==
  LET cluster == IF IOLess(e.cluster, io) THEN io ELSE e.cluster
      new     == calculate_local_committed(e.log_io.accepted, cluster)
  IN  [e EXCEPT !.cluster = cluster,
                !.apply_io.accepted = IF LogLess(@, new) THEN new ELSE @]

-----------------------------------------------------------------------------
(* RaftCore: handling a message or a notification, then running commands.  *)

\* Condition::is_met.
Met(e, cond, id) ==
  CASE cond = "none"      -> TRUE
    [] cond = "IOFlushed" -> IOLeq(id, e.log_io.flushed)
    [] cond = "Snapshot"  -> LogLeq(id, e.snap_io.flushed)

\* How many responds at the front of a queue can be sent.
Satisfied(e, queue) ==
  LET waiting == {i \in DOMAIN queue : ~Met(e, queue[i].cond, queue[i].id)}
  IN  IF waiting = {} THEN Len(queue) ELSE Min(waiting) - 1

Successes(responds) == {r.answer : r \in Range(responds)} \ {Reject}

\* send_satisfied_responds, the first thing run_engine_commands does.
Wake(e) ==
  LET n(q) == Satisfied(e, pending[q])
  IN  /\ eng' = e
      /\ pc' = "run"
      /\ pending' = [q \in DOMAIN pending |-> SubSeq(pending[q], n(q) + 1, Len(pending[q]))]
      /\ answered' = answered \cup UNION {Successes(SubSeq(pending[q], 1, n(q))) : q \in DOMAIN pending}

\* A message arrives while RaftCore waits.
Message(input, e) ==
  /\ up = "up" /\ pc = "idle" /\ left[input] > 0
  /\ left' = [left EXCEPT ![input] = @ - 1]
  /\ offered' = IF input = "installs" THEN Max({offered, IdIndex(e.snap)}) ELSE offered
  /\ Wake(e)
  /\ UNCHANGED <<notes, smq, build, machine, store, up, policy>>

\* handle_vote_request.  The last log id of the candidate is the one before
\* its own entries; the lease of the current leader may have run out or not.
LastBefore(l) ==
  IdIn(l, Cardinality({i \in DOMAIN LeaderLog[l] : LeaderLog[l][i] < l}))

\* The answer shows the vote, and waits until it is saved.
VoteAnswer(e, answer) == Respond("IOFlushed", VoteIO(e.vote), answer)

HandleVoteRequest(l, expired) ==
  LET v  == 2 * l
      ok == (eng.vote % 2 = 1 => expired) /\ LogLeq(LastId(eng.log), LastBefore(l))
              /\ v >= eng.vote
      e  == IF ok THEN update_vote(eng, v) ELSE eng
  IN  Message("votes",
        Push(e, VoteAnswer(e, IF ok THEN [kind |-> "vote", vote |-> v] ELSE Reject)))

\* FollowingHandler::append_entries: from the first entry that is missing or
\* in conflict on, entries are replaced; without one only the cursor moves,
\* behind the I/O accepted before.
AppendIfNew(e, v, prev_accepted, entries, last) ==
  LET new   == {j \in DOMAIN entries : ~has_log_id(e, entries[j])}
      since == Min(new)
      fresh == SubSeq(entries, since, Len(entries))
      t     == truncate_logs(e, entries[since][2])
  IN  IF new # {}
      THEN Push([t EXCEPT !.log = @ @@ [i \in {id[2] : id \in Range(fresh)} |->
                                          entries[i - entries[1][2] + 1][1]]],
                [kind |-> "AppendEntries", vote |-> v, entries |-> fresh])
      ELSE IF IOLeq(<<v, last>>, prev_accepted) THEN e
      ELSE Push(e, [kind |-> "UpdateIOProgress", io |-> <<v, last>>, when |-> prev_accepted])

\* handle_append_entries: p is the index of the previous entry, k the number
\* of entries and c the committed index of the leader.
HandleAppendEntries(l, p, k, c) ==
  LET v       == LeaderVote(l)
      entries == [j \in 1..k |-> IdIn(l, p + j)]
      last    == IdIn(l, p + k)
      voted   == update_vote(eng, v)
      e       == AppendIfNew(accept_log_io(voted, <<v, last>>), v,
                             voted.log_io.accepted, entries, last)
  IN  Message("appends",
        CASE v < eng.vote ->
               Push(eng, Respond("none", NoId, Reject))
          [] v >= eng.vote /\ p > 0 /\ ~has_log_id(voted, IdIn(l, p)) ->
               Push(truncate_logs(voted, p), Respond("none", NoId, Reject))
          [] OTHER ->
               update_committed(
                 Push(e, Respond("IOFlushed", e.log_io.accepted,
                                 [kind |-> "append", vote |-> v, leader |-> l, upto |-> p + k])),
                 <<v, IdIn(l, c)>>))

\* FollowingHandler::install_full_snapshot: a log in conflict is dropped behind
\* what is committed, the snapshot installed, and the log purged up to it.
install_full_snapshot(e, v, id) ==
  LET clear == IF id[2] \in DOMAIN e.log /\ IdAt(e.log, id[2]) # id
               THEN truncate_logs(e, IdIndex(committed(e)) + 1) ELSE e
      taken == [accept_log_io(clear, <<v, id>>) EXCEPT !.snap = id,
                  !.apply_io.accepted = id, !.snap_io.accepted = id, !.purge_upto = id]
  IN  purge_log(Push(taken, [kind |-> "InstallFullSnapshot", io |-> <<v, id>>, upto |-> id]))

\* handle_install_full_snapshot of the first n entries that leader l holds.
HandleInstallSnapshot(l, n) ==
  LET v     == LeaderVote(l)
      id    == IdIn(l, n)
      voted == update_vote(eng, v)
  IN  Message("installs",
        CASE v < eng.vote ->
               Push(eng, Respond("IOFlushed", VoteIO(eng.vote), Reject))
          [] v >= eng.vote /\ (LogLeq(id, committed(voted)) \/ LogLeq(id, voted.snap)) ->
               Push(voted, Respond("none", NoId, Reject))
          [] OTHER ->
               Push(install_full_snapshot(voted, v, id),
                    Respond("Snapshot", id, [kind |-> "snapshot", upto |-> n])))

\* SnapshotHandler::trigger_snapshot, on request or by policy.
TriggerSnapshot ==
  /\ ~eng.building
  /\ Message("snapshots", Push([eng EXCEPT !.building = TRUE], [kind |-> "BuildSnapshot"]))

\* Engine::trigger_purge_log.
TriggerPurge(i) ==
  /\ eng.snap # NoId /\ i > IdIndex(eng.purge_upto)
  /\ LET upto == IdAt(eng.log, Min({i, IdIndex(eng.snap)}))
     IN  Message("purges", purge_log([eng EXCEPT !.purge_upto = upto]))
-----------------------------------------------------------------------------
(* Running the commands (run_engine_commands, run_command).                *)

Cmd == Head(eng.output)
Rest(e) == [e EXCEPT !.output = Tail(@)]

\* Command::condition.
condition(cmd) ==
  CASE cmd.kind = "UpdateIOProgress" -> <<"IOFlushed", cmd.when>>
    [] cmd.kind = "PurgeLog"         -> <<"Snapshot", cmd.upto>>
    [] cmd.kind = "Respond"          -> <<cmd.cond, cmd.id>>
    [] OTHER                         -> <<"none", NoId>>

CanRun(cmd) == LET c == condition(cmd) IN Met(eng, c[1], c[2])

\* The first command is of this kind and does not have to wait.
Running(kind) ==
  /\ up = "up" /\ pc = "run" /\ eng.output # <<>>
  /\ Cmd.kind = kind /\ CanRun(Cmd)

LocalIO(io) == [kind |-> "LocalIO", io |-> io]

\* An I/O on the log is submitted, done, and reported by a notification.
LogIO(kind, io, d) ==
  /\ Running(kind)
  /\ eng' = [Rest(eng) EXCEPT !.log_io.submitted = io]
  /\ store' = d
  /\ notes' = Append(notes, LocalIO(io))
  /\ UNCHANGED <<pending, pc, smq, build, machine, up, answered, offered, left, policy>>

RunSaveVote == LogIO("SaveVote", VoteIO(Cmd.vote), [store EXCEPT !.vote = Cmd.vote])

Written(log, entries) ==
  [i \in {id[2] : id \in Range(entries)} |-> entries[i - entries[1][2] + 1][1]] @@ log

RunAppendEntries ==
  LogIO("AppendEntries", <<Cmd.vote, Last(Cmd.entries)>>,
        [store EXCEPT !.log = Written(@, Cmd.entries)])

RunUpdateIOProgress == LogIO("UpdateIOProgress", Cmd.io, store)

RunTruncateLog ==
  /\ Running("TruncateLog")
  /\ eng' = Rest(eng)
  /\ store' = [store EXCEPT !.log = Restrict(@, {i \in DOMAIN @ : i < Cmd.since})]
  /\ UNCHANGED <<pending, pc, notes, smq, build, machine, up, answered, offered, left, policy>>

Purged(d, upto) ==
  [d EXCEPT !.purged = upto, !.log = Restrict(@, {i \in DOMAIN @ : i > IdIndex(upto)})]

RunPurgeLog ==
  /\ Running("PurgeLog")
  /\ eng' = [Rest(eng) EXCEPT !.io_purged = Cmd.upto]
  /\ store' = Purged(store, Cmd.upto)
  /\ UNCHANGED <<pending, pc, notes, smq, build, machine, up, answered, offered, left, policy>>

\* Command::StateMachine: submitted, and forwarded to the worker.
RunInstall ==
  /\ Running("InstallFullSnapshot")
  /\ eng' = [Rest(eng) EXCEPT !.log_io.submitted = Cmd.io,
                              !.apply_io.submitted = Cmd.upto,
                              !.snap_io.submitted = Cmd.upto]
  /\ smq' = Append(smq, Cmd)
  /\ UNCHANGED <<pending, pc, notes, build, machine, store, up, answered, offered, left, policy>>

RunBuild ==
  /\ Running("BuildSnapshot")
  /\ eng' = Rest(eng)
  /\ smq' = Append(smq, Cmd)
  /\ UNCHANGED <<pending, pc, notes, build, machine, store, up, answered, offered, left, policy>>

RunRespond ==
  /\ Running("Respond")
  /\ eng' = Rest(eng)
  /\ answered' = answered \cup Successes(<<Cmd>>)
  /\ UNCHANGED <<pending, pc, notes, smq, build, machine, store, up, offered, left, policy>>

\* postpone_command: a respond waits aside; any other command that has to
\* wait stays at the front, and the ones behind it wait with it.
Postpone ==
  /\ up = "up" /\ pc = "run" /\ eng.output # <<>> /\ ~CanRun(Cmd)
  /\ IF Cmd.kind = "Respond"
     THEN /\ eng' = Rest(eng)
          /\ pending' = [pending EXCEPT ![Cmd.cond] = Append(@, Cmd)]
          /\ UNCHANGED pc
     ELSE pc' = "apply" /\ UNCHANGED <<eng, pending>>
  /\ UNCHANGED <<notes, smq, build, machine, store, up, answered, offered, left, policy>>

QueueEmpty ==
  /\ up = "up" /\ pc = "run" /\ eng.output = <<>>
  /\ pc' = "apply"
  /\ UNCHANGED <<eng, pending, notes, smq, build, machine, store, up, answered, offered, left, policy>>

\* next_progress_driven_command: how far the state machine may go.  The log
\* that is submitted must be the current leader's.
Applicable(e) ==
  IF e.log_io.submitted[1] = e.log_io.accepted[1]
  THEN MinId(e.log_io.submitted[2], e.apply_io.accepted) ELSE NoId

\* SaveCommittedAndApply, the only progress driven command.
SaveCommittedAndApply ==
  LET upto == Applicable(eng) IN
  /\ up = "up" /\ pc = "apply"
  /\ IF IdIndex(eng.apply_io.submitted) < IdIndex(upto)
     THEN /\ eng' = [eng EXCEPT !.apply_io.submitted = upto]
          /\ store' = [store EXCEPT !.committed = upto]
          /\ smq' = Append(smq, [kind |-> "Apply", first |-> IdIndex(eng.apply_io.submitted) + 1,
                                 upto |-> upto])
          /\ UNCHANGED pc
     ELSE pc' = "idle" /\ UNCHANGED <<eng, store, smq>>
  /\ UNCHANGED <<pending, notes, build, machine, up, answered, offered, left, policy>>

-----------------------------------------------------------------------------
(* The state machine worker and the task that builds a snapshot.           *)

Worker(kind) == up = "up" /\ smq # <<>> /\ Head(smq).kind = kind

\* Worker::apply reads the entries from the log store as it applies them.
WorkerApply ==
  LET cmd  == Head(smq)
      want == cmd.first..IdIndex(cmd.upto)
  IN  /\ Worker("Apply")
      /\ want \subseteq DOMAIN store.log
      /\ machine' = [machine EXCEPT !.applied = @ \o [j \in 1..Cardinality(want) |-> store.log[cmd.first + j - 1]]]
      /\ smq' = Tail(smq)
      /\ notes' = Append(notes, [kind |-> "Apply", upto |-> cmd.upto])
      /\ UNCHANGED <<eng, pending, pc, build, store, up, answered, offered, left, policy>>

\* The snapshot a leader sent holds the entries that are committed.
WorkerInstall ==
  /\ Worker("InstallFullSnapshot")
  /\ machine' = LET content == SubSeq(Chosen, 1, IdIndex(Head(smq).upto))
           IN  [applied |-> content, snapshot |-> content]
  /\ smq' = Tail(smq)
  /\ notes' = Append(notes, [kind |-> "InstallSnapshot", io |-> Head(smq).io, upto |-> Head(smq).upto])
  /\ UNCHANGED <<eng, pending, pc, build, store, up, answered, offered, left, policy>>

\* Worker::build_snapshot spawns a task and goes on.
WorkerBuild ==
  /\ Worker("BuildSnapshot")
  /\ build' = TRUE
  /\ smq' = Tail(smq)
  /\ UNCHANGED <<eng, pending, pc, notes, machine, store, up, answered, offered, left, policy>>

\* The task takes what is applied by then (MemStateMachine::build_snapshot).
BuildSnapshot ==
  /\ up = "up" /\ build
  /\ build' = FALSE
  /\ machine' = [machine EXCEPT !.snapshot = machine.applied]
  /\ notes' = Append(notes,
       [kind |-> "BuildSnapshotDone",
        upto |-> IF machine.applied = <<>> THEN NoId ELSE <<Last(machine.applied), Len(machine.applied)>>])
  /\ UNCHANGED <<eng, pending, pc, smq, store, up, answered, offered, left, policy>>
-----------------------------------------------------------------------------
(* handle_notification.                                                    *)

\* LogHandler::calc_purge_upto: entries of the snapshot but for the last ones;
\* purge_batch_size is 1.
PurgePolicy(e) ==
  LET end == IdIndex(e.snap) - policy.keep
  IN  IF IdIndex(e.purged) + 1 > end THEN e ELSE [e EXCEPT !.purge_upto = IdAt(e.log, end)]

\* Engine::on_building_snapshot_done.  A newer snapshot may have been
\* installed in the meantime.
on_building_snapshot_done(e, id) ==
  LET done == [e EXCEPT !.building = FALSE,
                        !.snap_io = IF id = NoId THEN @ ELSE try_update_all(@, id)]
  IN  IF LogLeq(id, e.snap) THEN done
      ELSE purge_log(PurgePolicy([done EXCEPT !.snap = id]))

\* What each notification changes.
Notified(e, n) ==
  CASE n.kind = "LocalIO"           -> [e EXCEPT !.log_io.flushed = n.io]
    [] n.kind = "Apply"             -> [e EXCEPT !.apply_io.flushed = n.upto]
    [] n.kind = "InstallSnapshot"   ->
         [e EXCEPT !.log_io.flushed = n.io, !.apply_io.flushed = n.upto, !.snap_io.flushed = n.upto]
    [] n.kind = "BuildSnapshotDone" -> on_building_snapshot_done(e, n.upto)

HandleNotification ==
  /\ up = "up" /\ pc = "idle" /\ notes # <<>>
  /\ notes' = Tail(notes)
  /\ Wake(Notified(eng, Head(notes)))
  /\ UNCHANGED <<smq, build, machine, store, up, offered, left, policy>>

-----------------------------------------------------------------------------
(* A crash between any two steps, and StorageHelper::get_initial_state.    *)

NoPending == [q \in {"IOFlushed", "Snapshot"} |-> <<>>]

\* The state machine lives in memory; a snapshot may outlive the crash.
CoreCrash ==
  /\ up = "up" /\ left["crashes"] > 0
  /\ left' = [left EXCEPT !["crashes"] = @ - 1]
  /\ up' = "down"
  /\ machine' = [applied |-> <<>>, snapshot |-> IF policy.kept THEN machine.snapshot ELSE <<>>]
  /\ pending' = NoPending /\ pc' = "idle" /\ notes' = <<>> /\ smq' = <<>> /\ build' = FALSE
  /\ UNCHANGED <<eng, store, answered, offered, policy>>

EndOf(content) == IF content = <<>> THEN NoId ELSE <<Last(content), Len(content)>>

\* reapply_committed: the entries of the log behind a snapshot.
Reapplied(snapshot, entries) ==
  snapshot \o [j \in 1..Cardinality(entries) |-> store.log[Len(snapshot) + j]]

\* The snapshot is installed, committed entries behind it are applied again,
\* and a log that ends before them is purged up to them.
Restart ==
  LET again   == Len(machine.snapshot) + 1..IdIndex(store.committed)
      can     == again # {} => /\ Len(machine.snapshot) >= IdIndex(store.purged)
                               /\ again \subseteq DOMAIN store.log
      applied == Reapplied(machine.snapshot, again)
      last    == IF DOMAIN store.log = {} THEN store.purged ELSE LastId(store.log)
      d       == IF LogLess(last, EndOf(applied)) THEN Purged(store, EndOf(applied)) ELSE store
      ids     == IF d.purged = NoId THEN d.log ELSE (IdIndex(d.purged) :> d.purged[1]) @@ d.log
      snap    == IF machine.snapshot = <<>> /\ d.purged # NoId THEN applied ELSE machine.snapshot
  IN  /\ up = "down"
      /\ IF can
         THEN /\ up' = "up"
              /\ machine' = [applied |-> applied, snapshot |-> snap]
              /\ store' = d
              /\ eng' = NewEngine(d, EndOf(applied), EndOf(snap), ids, d.purged)
         ELSE up' = "failed" /\ UNCHANGED <<machine, store, eng>>
      /\ UNCHANGED <<pending, pc, notes, smq, build, answered, offered, left, policy>>

-----------------------------------------------------------------------------
IOInit(roles) ==
  /\ \E r \in roles : policy = r.policy /\ left = r.left
  /\ store = [vote |-> 0, log |-> <<>>, purged |-> NoId, committed |-> NoId]
  /\ eng = NewEngine(store, NoId, NoId, <<>>, NoId)
  /\ machine = [applied |-> <<>>, snapshot |-> <<>>]
  /\ pending = NoPending /\ pc = "idle" /\ notes = <<>> /\ smq = <<>> /\ build = FALSE
  /\ up = "up" /\ answered = {} /\ offered = 0

\* The steps RaftCore takes by itself.
CoreNext ==
  \/ RunSaveVote \/ RunAppendEntries \/ RunUpdateIOProgress \/ RunTruncateLog
  \/ RunPurgeLog \/ RunInstall \/ RunBuild \/ RunRespond \/ Postpone \/ QueueEmpty
  \/ SaveCommittedAndApply \/ HandleNotification

WorkerNext == WorkerApply \/ WorkerInstall \/ WorkerBuild

-----------------------------------------------------------------------------
ProgressOK(p, less(_, _)) == ~less(p.submitted, p.flushed) /\ ~less(p.accepted, p.submitted)

\* Type and order of the cursors (IOState::validate): no I/O is reported before
\* it is submitted, or submitted before it is accepted; a snapshot covers only
\* what was given to the state machine, and the log is purged only up to a
\* snapshot that is there.
IOStateValid ==
  up = "up" =>
    /\ ProgressOK(eng.log_io, IOLess)
    /\ ProgressOK(eng.apply_io, LogLess)
    /\ ProgressOK(eng.snap_io, LogLess)
    /\ LogLeq(eng.snap_io.submitted, eng.apply_io.submitted)
    /\ LogLeq(eng.io_purged, eng.snap_io.flushed)

\* The answers RaftCore sends (run_engine_commands, PendingResponds) hold
\* across a crash at any point: a vote that was granted is saved, and as long as
\* the same leader leads, the entries it was told are stored are in the log
\* store, or a snapshot covers them.  A queue of commands, a queue of
\* notifications and a queue of waiting answers lie between the two.
AnsweredIsDurable ==
  \A a \in answered :
    CASE a.kind = "vote"     -> store.vote >= a.vote
      [] a.kind = "append"   ->
           store.vote = a.vote =>
             \A i \in 1..a.upto :
               \/ i <= Max({offered, IdIndex(store.purged)})
               \/ i \in DOMAIN store.log /\ store.log[i] = LeaderLog[a.leader][i]
      [] a.kind = "snapshot" ->
           up = "up" => Len(machine.applied) >= a.upto \/ ~policy.kept

\* The state machine worker reads the log while RaftCore goes on changing it
\* (sm/worker.rs apply), and a restart applies entries again: what is applied,
\* and what a snapshot holds, is what the leaders have committed, in order.
AppliedInOrder == IsPrefix(machine.applied, Chosen) /\ IsPrefix(machine.snapshot, Chosen)

\* Entries the worker still has to apply are in the log store: no truncation
\* and no purge overtakes it.
WorkerFindsEntries ==
  \A j \in DOMAIN smq :
    smq[j].kind = "Apply" => smq[j].first..IdIndex(smq[j].upto) \subseteq DOMAIN store.log

\* A crash between the truncation, the installation of a snapshot and the purge
\* that belong together leaves a node that starts again: everything it has
\* committed is in its snapshot or in its log (get_initial_state).
StartsAgain == up # "failed"
=============================================================================
