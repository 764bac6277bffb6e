-------------------------------- MODULE RaftApi --------------------------------
(***************************************************************************)
(* The life of one Raft node as its callers see it: the calls of           *)
(* openraft's public API (raft/mod.rs and raft/api), the channel that      *)
(* carries them to the task RaftCore, the task's main loop, the state      *)
(* machine worker, the ticker, the three metrics channels, and how         *)
(* everybody learns that the core has stopped: CoreState, which goes from  *)
(* Running through Joining to Done.                                        *)
(*                                                                         *)
(* What the consensus decides is not repeated here (RaftCluster, RaftIO):  *)
(* the engine is the record eng, which leads from the start, loses the     *)
(* leadership at most once, and moves its three log positions.             *)
(***************************************************************************)
EXTENDS Naturals, Sequences, FiniteSets

CONSTANTS Calls,     \* the calls that are made, each at most once
          Loads,     \* what Init chooses from: [kinds, ticks], where kinds maps
                     \* Calls to kinds and ticks is how often the tick is switched
          Dropped,   \* the calls whose future may be dropped before it ends
          DropJoin,  \* whether that may happen to the call that joins the core
          ApiSize,   \* capacity of the API channel
          NoteSize   \* capacity of the notification channel

Kinds == {"write", "read", "lease", "state", "sm", "snapshot", "trigger",
          "append", "transfer", "wait", "exact", "shutdown"}

Errors == {"stopped", "storage", "panicked"}

ASSUME ApiAssumption ==
    /\ \A load \in Loads : load.kinds \in [Calls -> Kinds] /\ load.ticks \in Nat
    /\ Dropped \subseteq Calls /\ DropJoin \in BOOLEAN
    /\ ApiSize \in Nat \ {0} /\ NoteSize \in Nat \ {0}

VARIABLES
    call,      \* call -> [kind, pc, res, reply, want, acked, seen, fresh]
    apiq,      \* the API channel: a sequence of calls
    noteq,     \* the notification channel
    smq,       \* the unbounded channel of the state machine worker
    smState,   \* "up", "notify" or "failing" (has to report), or "down"
    smApplied, \* the last entry the state machine holds
    corePc,    \* where the task RaftCore is
    coreErr,   \* what the task returned or "none"
    coreState, \* the CoreState of RaftInner: [s, err, by]
    eng,       \* the engine: [lead, log, committed, applied, pending]
    checks,    \* leadership checks that run in tasks of their own
    mets,      \* the metrics channels: [data, server, raft, closed]
    stopSent,  \* the shutdown sender was taken and used
    ticker     \* the tick task: [pc, on, cancel, joined, switches]

apiVars == <<call, apiq, noteq, smq, smState, smApplied, corePc, coreErr,
             coreState, eng, checks, mets, stopSent, ticker>>

coreVars == <<corePc, coreErr, eng, checks, mets>>
smVars == <<smq, smState, smApplied>>

CoreAlive == corePc # "ended"

CallsIn(q) == {q[i] : i \in 1..Len(q)}

NoCall(kind) ==
    [kind |-> kind, pc |-> "off", res |-> "none", reply |-> "none",
     want |-> 0, acked |-> {}, seen |-> 0, fresh |-> FALSE]

\* Raft::new: the tasks are spawned before it returns, the core first reports
\* its metrics and then enters its loop.
ApiInit ==
    /\ \E load \in Loads :
         /\ call = [c \in Calls |-> NoCall(load.kinds[c])]
         /\ ticker = [pc |-> "sleep", on |-> FALSE, cancel |-> FALSE,
                      joined |-> FALSE, switches |-> load.ticks]
    /\ apiq = <<>>
    /\ noteq = <<>>
    /\ smq = <<>>
    /\ smState = "up"
    /\ smApplied = 0
    /\ corePc = "data"
    /\ coreErr = "none"
    /\ coreState = [s |-> "running", err |-> "none", by |-> "none"]
    /\ eng = [lead |-> TRUE, log |-> 0, committed |-> 0, applied |-> 0,
              pending |-> {}]
    /\ checks = {}
    /\ mets = [data |-> 0, server |-> TRUE, raft |-> [applied |-> 0,
               lead |-> TRUE, up |-> TRUE], closed |-> FALSE]
    /\ stopSent = FALSE

-----------------------------------------------------------------------------
(* The calls *)

Set(c, new) == call' = [call EXCEPT ![c] = new]

Goto(c, pc) == Set(c, [call[c] EXCEPT !.pc = pc])

\* A call ends.
End(c, res) == Set(c, [call[c] EXCEPT !.pc = "done", !.res = res])

\* The entries whose writes were answered.
Acked == {call[c].want : c \in {d \in Calls : call[d].kind = "write" /\ call[d].res = "ok"}}

\* shutdown takes the sender out of its mutex, so only the first call signals.
shutdown(c) ==
    /\ call[c].kind = "shutdown"
    /\ call[c].pc = "off"
    /\ stopSent' = TRUE
    /\ Goto(c, "stop")
    /\ UNCHANGED <<apiq, noteq, smVars, coreVars, coreState, ticker>>

\* A call begins; what was acknowledged before it is remembered.
Start(c, pc, want) ==
    /\ call[c].pc = "off"
    /\ Set(c, [call[c] EXCEPT !.pc = pc, !.want = want, !.fresh = TRUE, !.acked = Acked])
    /\ UNCHANGED <<apiq, noteq, smVars, coreVars, coreState, stopSent, ticker>>

\* AppApi, ProtocolApi, with_raft_state, with_state_machine and Trigger all
\* begin by sending a message to the core.
client_write(c) == call[c].kind = "write" /\ Start(c, "send", 0)

ensure_linearizable(c) == call[c].kind \in {"read", "lease"} /\ Start(c, "send", 0)

ProtocolCall(c) == call[c].kind \in {"append", "snapshot"} /\ Start(c, "send", 0)

with_raft_state(c) == call[c].kind = "state" /\ Start(c, "send", 0)

with_state_machine(c) == call[c].kind = "sm" /\ Start(c, "send", 0)

Trigger(c) == call[c].kind = "trigger" /\ Start(c, "send", 0)

\* The target of a leadership transfer first looks at the metrics, and Wait
\* only looks at them.
handle_transfer_leader(c) == call[c].kind = "transfer" /\ Start(c, "flushed", 0)

applied_index(c) == call[c].kind \in {"wait", "exact"} /\ Start(c, "ready", 1)

Begin(c) ==
    \/ client_write(c) \/ ensure_linearizable(c) \/ ProtocolCall(c)
    \/ with_raft_state(c) \/ with_state_machine(c) \/ Trigger(c)
    \/ handle_transfer_leader(c) \/ applied_index(c)

\* ensure_log_flushed_for_transfer_leader gives up when the vote moved on; when
\* the log is flushed, on a timeout and on an error the message is sent.
ensure_log_flushed_for_transfer_leader(c) ==
    /\ call[c].pc = "flushed"
    /\ \/ End(c, "ok")
       \/ Goto(c, "send")
    /\ UNCHANGED <<apiq, noteq, smVars, coreVars, coreState, stopSent, ticker>>

\* A trigger, and the message of a transfer, want no answer.
SentIsAll(c) == call[c].kind \in {"trigger", "transfer"}

\* tx_api.send waits for room; it fails when the core has dropped the receiver.
send_msg(c) ==
    /\ call[c].pc = "send"
    /\ IF CoreAlive
       THEN /\ Len(apiq) < ApiSize
            /\ apiq' = Append(apiq, c)
            /\ IF SentIsAll(c) THEN End(c, "ok")
               ELSE Set(c, [call[c] EXCEPT !.pc = "recv", !.reply = "open"])
       ELSE /\ Goto(c, "stop")
            /\ UNCHANGED apiq
    /\ UNCHANGED <<noteq, smVars, coreVars, coreState, stopSent, ticker>>

\* Whoever holds the sender of the answer, in order of its travel: the
\* channel, the core, the worker's queue and a spawned check.
SenderHeld(c) ==
    \/ c \in CallsIn(apiq)
    \/ c \in checks
    \/ \E p \in eng.pending : p.call = c
    \/ \E i \in 1..Len(smq) : c \in smq[i].calls

\* Mutant: the answer of the leadership check is taken for the read itself.
BadRecvMsg(c) ==
    /\ call[c].pc = "recv"
    /\ call[c].reply \notin {"none", "open"}
    /\ End(c, call[c].reply)
    /\ UNCHANGED <<apiq, noteq, smVars, coreVars, coreState, stopSent, ticker>>

\* recv_msg: an answer ends the call, except that ensure_linearizable goes on
\* to wait for the state machine unless the answer says it is ready.
recv_msg(c) ==
    /\ call[c].pc = "recv"
    /\ call[c].reply \notin {"none", "open"}
    /\ IF call[c].reply = "ok" /\ call[c].kind \in {"read", "lease"}
          /\ call[c].seen < call[c].want
       THEN Goto(c, "ready")
       ELSE End(c, call[c].reply)
    /\ UNCHANGED <<apiq, noteq, smVars, coreVars, coreState, stopSent, ticker>>

\* The sender was dropped without an answer. with_state_machine takes this for
\* a wrong type unless the core is known to have left the running state.
RecvFails(c) ==
    /\ call[c].pc = "recv"
    /\ call[c].reply = "open"
    /\ ~SenderHeld(c)
    /\ IF call[c].kind = "sm" /\ coreState.s = "running"
       THEN End(c, "wrong_type")
       ELSE Goto(c, "stop")
    /\ UNCHANGED <<apiq, noteq, smVars, coreVars, coreState, stopSent, ticker>>

\* The condition a Wait tests: at least this much, or exactly this much.
Condition(c) ==
    IF call[c].kind = "exact" THEN mets.raft.applied = call[c].want
    ELSE mets.raft.applied >= call[c].want

\* Wait::metrics tests the latest value before it waits for the next one; a
\* closed channel is reported only when there is no value it has not tested.
metrics(c) ==
    /\ call[c].pc = "ready"
    /\ IF Condition(c)
       THEN Set(c, [call[c] EXCEPT !.pc = "done", !.res = "ok", !.seen = mets.raft.applied])
       ELSE IF call[c].fresh
       THEN Set(c, [call[c] EXCEPT !.fresh = FALSE])
       ELSE /\ mets.closed
            /\ IF call[c].kind \in {"wait", "exact"} THEN End(c, "closing")
               ELSE Goto(c, "stop")
    /\ UNCHANGED <<apiq, noteq, smVars, coreVars, coreState, stopSent, ticker>>

\* join_core_task, entry: the first caller takes the join handle, later ones
\* wait for it, and once the result is there nobody waits.
join_core_task(c) ==
    /\ call[c].pc = "stop"
    /\ CASE coreState.s = "running" ->
              /\ coreState' = [s |-> "joining", err |-> "none", by |-> c]
              /\ Goto(c, "join")
         [] coreState.s = "joining" ->
              /\ Goto(c, "await")
              /\ UNCHANGED coreState
         [] OTHER ->
              /\ Goto(c, "joined")
              /\ UNCHANGED coreState
    /\ UNCHANGED <<apiq, noteq, smVars, coreVars, stopSent, ticker>>

\* The join handle is ready: the result is recorded and the others are told.
Joined(c) ==
    /\ call[c].pc = "join"
    /\ ~CoreAlive
    /\ coreState' = [s |-> "done", err |-> coreErr, by |-> c]
    /\ Goto(c, "joined")
    /\ UNCHANGED <<apiq, noteq, smVars, coreVars, stopSent, ticker>>

\* Another caller was joining: it has told, or its sender is gone.
Told(c) ==
    /\ call[c].pc = "await"
    /\ coreState.s = "done" \/ call[coreState.by].pc = "gone"
    /\ Goto(c, "joined")
    /\ UNCHANGED <<apiq, noteq, smVars, coreVars, coreState, stopSent, ticker>>

\* get_core_stop_error reads the result that must be there by now.
get_core_stop_error(c) ==
    /\ call[c].pc = "joined"
    /\ call[c].kind # "shutdown"
    /\ End(c, IF coreState.s = "done" THEN coreState.err ELSE "unreachable")
    /\ UNCHANGED <<apiq, noteq, smVars, coreVars, coreState, stopSent, ticker>>

\* The end of shutdown: the tick loop is signalled, and joined by the first.
ShutdownTick(c) ==
    /\ call[c].pc = "joined"
    /\ call[c].kind = "shutdown"
    /\ ticker' = [ticker EXCEPT !.cancel = TRUE, !.joined = TRUE]
    /\ IF ticker.joined THEN End(c, "ok") ELSE Goto(c, "ticker")
    /\ UNCHANGED <<apiq, noteq, smVars, coreVars, coreState, stopSent>>

ShutdownEnds(c) ==
    /\ call[c].pc = "ticker"
    /\ ticker.pc = "stopped"
    /\ End(c, "ok")
    /\ UNCHANGED <<apiq, noteq, smVars, coreVars, coreState, stopSent, ticker>>

\* The caller drops the future of its call.
Drop(c) ==
    /\ c \in Dropped
    /\ \/ call[c].pc \in {"send", "recv", "ready"}
       \/ DropJoin /\ call[c].pc = "join"
    /\ Goto(c, "gone")
    /\ UNCHANGED <<apiq, noteq, smVars, coreVars, coreState, stopSent, ticker>>

CallStep(c) ==
    \/ ensure_log_flushed_for_transfer_leader(c) \/ send_msg(c) \/ recv_msg(c)
    \/ RecvFails(c) \/ metrics(c) \/ join_core_task(c) \/ Joined(c) \/ Told(c)
    \/ get_core_stop_error(c) \/ ShutdownTick(c) \/ ShutdownEnds(c)

-----------------------------------------------------------------------------
(* The task RaftCore *)

Answer(c, res) == Set(c, [call[c] EXCEPT !.reply = res])

\* Every value of the metrics wakes the callers that wait for one.
Fresh == [c \in Calls |-> [call[c] EXCEPT !.fresh = TRUE]]

\* report_metrics: the data, then the server metrics, and RaftMetrics last.
ReportData ==
    /\ corePc = "data"
    /\ mets' = [mets EXCEPT !.data = eng.applied]
    /\ corePc' = "server"
    /\ UNCHANGED <<call, apiq, noteq, smVars, coreErr, coreState, eng, checks,
                   stopSent, ticker>>

ReportServer ==
    /\ corePc = "server"
    /\ mets' = [mets EXCEPT !.server = eng.lead]
    /\ corePc' = "raft"
    /\ UNCHANGED <<call, apiq, noteq, smVars, coreErr, coreState, eng, checks,
                   stopSent, ticker>>

\* The loop goes on to wait for a message; main, when the loop has returned,
\* goes on to announce the end.
ReportRaft ==
    /\ corePc = "raft"
    /\ mets' = [mets EXCEPT !.raft.applied = eng.applied, !.raft.lead = eng.lead]
    /\ call' = Fresh
    /\ corePc' = IF coreErr = "none" THEN "select" ELSE "closing"
    /\ UNCHANGED <<apiq, noteq, smVars, coreErr, coreState, eng, checks,
                   stopSent, ticker>>

\* The end of main: the last metrics carry the error.
CloseMetrics ==
    /\ corePc = "closing"
    /\ mets' = [mets EXCEPT !.raft.up = FALSE]
    /\ call' = Fresh
    /\ corePc' = "dropping"
    /\ UNCHANGED <<apiq, noteq, smVars, coreErr, coreState, eng, checks,
                   stopSent, ticker>>

\* The task ends: everything it owns is dropped with it, the receivers, the
\* senders of the metrics, the unanswered writes and the worker's channel.
Ended(err) ==
    /\ corePc' = "ended"
    /\ coreErr' = err
    /\ apiq' = <<>>
    /\ noteq' = <<>>
    /\ eng' = [eng EXCEPT !.pending = {}]
    /\ mets' = [mets EXCEPT !.closed = TRUE]
    /\ UNCHANGED <<call, smVars, coreState, checks, stopSent, ticker>>

DropCore == corePc = "dropping" /\ Ended(coreErr)

\* A command for the worker is lost when the worker is gone.
SmSend(cmd) == smq' = IF smState = "down" THEN smq ELSE Append(smq, cmd)

PendingCalls == {p.call : p \in eng.pending}

\* The log is committed up to its end: the entries go to the worker with the
\* callers that wait for them.
CommitAll(e) ==
    /\ eng' = [e EXCEPT !.committed = e.log, !.pending = {}]
    /\ SmSend([do |-> "apply", upto |-> e.log, calls |-> PendingCalls])

write_entry(c) ==
    /\ call[c].kind = "write"
    /\ IF eng.lead
       THEN /\ eng' = [eng EXCEPT !.log = @ + 1,
                         !.pending = @ \cup {[call |-> c, at |-> eng.log + 1]}]
            /\ Set(c, [call[c] EXCEPT !.want = eng.log + 1])
       ELSE /\ Answer(c, "forward")
            /\ UNCHANGED eng
    /\ UNCHANGED <<checks, smq>>

\* The read position is the committed one, taken together with what is applied
\* at this moment. A lease read is answered at once; a quorum read too when
\* this node is a quorum, otherwise a task asks the other voters.
handle_check_is_leader_request(c) ==
    /\ call[c].kind \in {"read", "lease"}
    /\ IF ~eng.lead
       THEN Answer(c, "forward") /\ UNCHANGED checks
       ELSE LET at == [call[c] EXCEPT !.want = eng.committed, !.seen = eng.applied]
            IN  \/ /\ Set(c, [at EXCEPT !.reply = "ok"])
                   /\ UNCHANGED checks
                \/ /\ call[c].kind = "lease"
                   /\ Answer(c, "forward")
                   /\ UNCHANGED checks
                \/ /\ call[c].kind = "read"
                   /\ Set(c, at)
                   /\ checks' = checks \cup {c}
    /\ UNCHANGED <<eng, smq>>

\* Calls that are answered from the core's own state.
AnswerAtOnce(c) ==
    /\ call[c].kind = "state"
    /\ Answer(c, "ok")
    /\ UNCHANGED <<eng, checks, smq>>

\* Calls that the core passes on to the state machine worker.
PassToWorker(c) ==
    /\ call[c].kind \in {"sm", "snapshot"}
    /\ SmSend([do |-> call[c].kind, upto |-> 0, calls |-> {c}])
    /\ UNCHANGED <<call, eng, checks>>

\* A message that is not answered and leaves the log alone.
NoAnswer(c) ==
    /\ SentIsAll(c)
    /\ UNCHANGED <<call, eng, checks, smq>>

\* Entries of a newer leader: this node follows from now on. They agree with
\* its log, and commit it, or they replace what is not committed, and the
\* writes that waited there are sent to the leader.
handle_append_entries_request(c) ==
    /\ call[c].kind = "append"
    /\ UNCHANGED checks
    /\ LET e == [eng EXCEPT !.lead = FALSE]
       IN  \/ /\ CommitAll(e)
              /\ Answer(c, "ok")
           \/ /\ eng' = [e EXCEPT !.pending = {}]
              /\ call' = [d \in Calls |->
                            IF d = c THEN [call[d] EXCEPT !.reply = "ok"]
                            ELSE IF d \in PendingCalls
                            THEN [call[d] EXCEPT !.reply = "forward"]
                            ELSE call[d]]
              /\ UNCHANGED smq

\* handle_api_msg with the first message of the channel.
handle_api_msg ==
    /\ apiq # <<>>
    /\ apiq' = Tail(apiq)
    /\ LET c == Head(apiq)
       IN  write_entry(c) \/ handle_check_is_leader_request(c)
           \/ AnswerAtOnce(c) \/ PassToWorker(c) \/ NoAnswer(c)
           \/ handle_append_entries_request(c)

\* handle_notification with the first notification.
handle_notification ==
    /\ noteq # <<>>
    /\ noteq' = Tail(noteq)
    /\ LET n == Head(noteq)
       IN  CASE n.what = "stored" /\ eng.lead -> CommitAll(eng)
             [] n.what = "applied" -> /\ eng' = [eng EXCEPT !.applied = n.upto]
                                      /\ UNCHANGED smq
             [] n.what = "higher" -> /\ eng' = [eng EXCEPT !.lead = FALSE]
                                     /\ UNCHANGED smq
             [] OTHER -> UNCHANGED <<eng, smq>>
    /\ UNCHANGED <<call, checks>>

\* An error of the storage while the engine's commands run ends the loop.
Fails == corePc' = "data" /\ coreErr' = "storage"

GoOn(pc) == (corePc' = pc /\ UNCHANGED coreErr) \/ Fails

\* So does an error that the worker reports.
Noted(pc) == IF Head(noteq).what = "sm_error" THEN Fails ELSE GoOn(pc)

coreRest == <<smState, smApplied, coreState, mets, stopSent, ticker>>

\* runtime_loop waits for a signal, a notification or a message, in this order.
Select ==
    /\ corePc = "select"
    /\ \/ /\ stopSent
          /\ corePc' = "data"
          /\ coreErr' = "stopped"
          /\ UNCHANGED <<call, apiq, noteq, smq, eng, checks>>
       \/ /\ ~stopSent
          /\ handle_notification
          /\ Noted("msg")
          /\ UNCHANGED apiq
       \/ /\ ~stopSent /\ noteq = <<>>
          /\ handle_api_msg
          /\ GoOn("msg")
          /\ UNCHANGED noteq
    /\ UNCHANGED coreRest

\* Mutant: the budget of a round may be no message at all.
BadProcessRaftMsg ==
    /\ corePc = "msg"
    /\ corePc' = "note"
    /\ UNCHANGED <<call, apiq, noteq, smq, eng, checks, coreErr, coreRest>>

\* process_raft_msg: as many messages as the budget of the round allows, which
\* is at least one (balancer.rs) and here one or two.
process_raft_msg ==
    /\ corePc \in {"msg", "msgs"}
    /\ \/ /\ handle_api_msg
          /\ GoOn(IF corePc = "msg" THEN "msgs" ELSE "note")
          /\ UNCHANGED noteq
       \/ /\ apiq = <<>> \/ corePc = "msgs"
          /\ corePc' = "note"
          /\ UNCHANGED <<call, apiq, noteq, smq, eng, checks, coreErr>>
    /\ UNCHANGED coreRest

process_notification ==
    /\ corePc \in {"note", "notes"}
    /\ \/ /\ handle_notification
          /\ Noted(IF corePc = "note" THEN "notes" ELSE "data")
          /\ UNCHANGED apiq
       \/ /\ noteq = <<>> \/ corePc = "notes"
          /\ corePc' = "data"
          /\ UNCHANGED <<call, apiq, noteq, smq, eng, checks, coreErr>>
    /\ UNCHANGED coreRest

\* The function that with_raft_state hands to the core panics there.
CorePanics ==
    /\ corePc \in {"select", "msg", "msgs"}
    /\ apiq # <<>>
    /\ call[Head(apiq)].kind = "state"
    /\ Ended("panicked")

CoreStep ==
    \/ ReportData \/ ReportServer \/ ReportRaft \/ CloseMetrics \/ DropCore
    \/ Select \/ process_raft_msg \/ process_notification

-----------------------------------------------------------------------------
(* The other tasks *)

\* Sending a notification waits for room and fails when the core is gone.
Notify(n) ==
    IF CoreAlive THEN Len(noteq) < NoteSize /\ noteq' = Append(noteq, n)
    ELSE UNCHANGED noteq

taskRest == <<apiq, coreVars, coreState, stopSent>>

\* worker_loop: a command is answered by the worker itself; after an apply the
\* core is told. A failing state machine ends the worker.
worker_loop ==
    /\ smState = "up"
    /\ smq # <<>>
    /\ LET cmd == Head(smq)
       IN  \/ /\ smq' = Tail(smq)
              /\ call' = [c \in Calls |-> IF c \in cmd.calls
                                         THEN [call[c] EXCEPT !.reply = "ok"]
                                         ELSE call[c]]
              /\ IF cmd.do = "apply"
                 THEN smApplied' = cmd.upto /\ smState' = "notify"
                 ELSE UNCHANGED <<smApplied, smState>>
           \/ /\ cmd.do # "sm"
              /\ smq' = Tail(smq)
              /\ smState' = "failing"
              /\ UNCHANGED <<call, smApplied>>
    /\ UNCHANGED <<taskRest, noteq, ticker>>

SmNotify ==
    /\ smState = "notify"
    /\ Notify([what |-> "applied", upto |-> smApplied])
    /\ smState' = "up"
    /\ UNCHANGED <<taskRest, call, smq, smApplied, ticker>>

\* do_spawn: the error is reported before the worker, with what is queued for
\* it, is dropped.
SmFails ==
    /\ smState = "failing"
    /\ Notify([what |-> "sm_error", upto |-> 0])
    /\ smState' = "down"
    /\ smq' = <<>>
    /\ UNCHANGED <<taskRest, call, smApplied, ticker>>

\* The channel is closed and empty.
SmEnds ==
    /\ smState = "up" /\ smq = <<>> /\ ~CoreAlive
    /\ smState' = "down"
    /\ UNCHANGED <<taskRest, call, noteq, smq, smApplied, ticker>>

\* The task of a leadership check answers: a quorum agreed, too few answered,
\* or one has seen a higher vote, which the core is told first.
CheckAnswers(c) ==
    /\ c \in checks
    /\ checks' = checks \ {c}
    /\ \/ Answer(c, "ok") /\ UNCHANGED noteq
       \/ Answer(c, "few") /\ UNCHANGED noteq
       \/ Answer(c, "forward") /\ Notify([what |-> "higher", upto |-> 0])
    /\ UNCHANGED <<apiq, smVars, corePc, coreErr, coreState, eng, mets,
                   stopSent, ticker>>

\* tick_loop: the signal is looked at only between two ticks.
tick_loop ==
    /\ \/ /\ ticker.pc = "sleep" /\ ticker.cancel
          /\ ticker' = [ticker EXCEPT !.pc = "stopped"]
          /\ UNCHANGED noteq
       \/ /\ ticker.pc = "sleep" /\ ~ticker.cancel /\ ticker.on
          /\ ticker' = [ticker EXCEPT !.pc = "send"]
          /\ UNCHANGED noteq
       \/ /\ ticker.pc = "send"
          /\ Notify([what |-> "tick", upto |-> 0])
          /\ ticker' = [ticker EXCEPT !.pc = IF CoreAlive THEN "sleep"
                                            ELSE "stopped"]
    /\ UNCHANGED <<taskRest, call, smVars>>

\* runtime_config().tick(enabled)
enable ==
    /\ ticker.switches > 0
    /\ ticker' = [ticker EXCEPT !.on = ~@, !.switches = @ - 1]
    /\ UNCHANGED <<taskRest, call, noteq, smVars>>

\* A replication stream or the log's storage reports progress, or a higher
\* vote: once each, as long as there is something to report.
Hears ==
    /\ CoreAlive
    /\ eng.lead
    /\ \E what \in {"stored", "higher"} :
          /\ what = "stored" => eng.log > eng.committed
          /\ \A i \in 1..Len(noteq) : noteq[i].what # what
          /\ Notify([what |-> what, upto |-> 0])
    /\ UNCHANGED <<taskRest, call, smVars, ticker>>

TaskStep ==
    \/ worker_loop \/ SmNotify \/ SmFails \/ SmEnds
    \/ \E c \in Calls : CheckAnswers(c)

ApiNext ==
    \/ \E c \in Calls : shutdown(c) \/ Begin(c) \/ CallStep(c) \/ Drop(c)
    \/ CoreStep
    \/ CorePanics
    \/ TaskStep
    \/ tick_loop
    \/ enable
    \/ Hears

\* The runtime polls every task that can go on, and a channel gives its room to
\* the senders in the order in which they came, so that nobody waits for ever
\* while others get through. Nothing makes a caller begin, a future be dropped,
\* or the other nodes report.
ApiFairness ==
    /\ \A c \in Calls : WF_apiVars(CallStep(c)) /\ SF_apiVars(send_msg(c))
    /\ WF_apiVars(CoreStep)
    /\ WF_apiVars(TaskStep)
    /\ SF_apiVars(SmNotify)
    /\ SF_apiVars(SmFails)
    /\ WF_apiVars(tick_loop)

ApiSpec == ApiInit /\ [][ApiNext]_apiVars /\ ApiFairness

-----------------------------------------------------------------------------
(* Properties *)

\* Every variable has its type.
ApiTypeOK ==
    /\ \A c \in Calls :
         /\ call[c].kind \in Kinds
         /\ call[c].pc \in {"off", "flushed", "send", "recv", "ready", "stop",
                            "join", "await", "joined", "ticker", "done", "gone"}
         /\ call[c].reply \in {"none", "open", "ok", "forward", "few"}
    /\ CallsIn(apiq) \subseteq Calls
    /\ Len(apiq) <= ApiSize
    /\ Len(noteq) <= NoteSize
    /\ smState \in {"up", "notify", "failing", "down"}
    /\ coreErr \in Errors \cup {"none"}
    /\ coreState.s \in {"running", "joining", "done"}
    /\ eng.applied <= eng.committed /\ eng.committed <= eng.log
    /\ checks \subseteq Calls
    /\ ticker.pc \in {"sleep", "send", "stopped"}

\* get_core_stop_error: however many calls find the core gone, at whatever
\* point of their life, each of them reports the one error the core task
\* returned, and none finds the result missing ("unreachable!").
StopErrorIsShared ==
    \A c \in Calls : call[c].res \in Errors \cup {"unreachable"} =>
        ~CoreAlive /\ call[c].res = coreErr

\* shutdown "waits until RaftCore returns" (mod.rs:1157), also when another
\* call has begun to wait before it.
ShutdownMeansStopped ==
    \A c \in Calls : call[c].kind = "shutdown" /\ call[c].res = "ok" => ~CoreAlive

\* ensure_linearizable: a read that is told to go ahead is told a position that
\* covers every write that was answered before the read began, although the
\* worker answers writes before the core hears that they are applied, and that
\* the state machine has reached.
ReadCoversAcks ==
    \A c \in Calls : call[c].kind \in {"read", "lease"} /\ call[c].res = "ok" =>
        (\A n \in call[c].acked : n <= call[c].seen) /\ call[c].seen <= smApplied

\* report_metrics: who sees a value of RaftMetrics finds the other two channels
\* at least as new (raft_core.rs:636-638).
MetricsInOrder ==
    /\ mets.raft.applied <= mets.data
    /\ ~mets.raft.lead => ~mets.server

\* Wait::metrics: who waits for a condition that the metrics do reach before
\* the core ends is told so, and not that the node shuts down.
WaitersMissNothing ==
    \A c \in Calls : call[c].res = "closing" => ~Condition(c)

\* with_state_machine: InvalidStateMachineType is for a wrong type, a stopped
\* core is a Fatal error (mod.rs:910-916). Every call here has the right type.
WrongTypeIsReal == \A c \in Calls : call[c].res # "wrong_type"

Over(c) == call[c].pc \in {"done", "gone"}

\* A call that waits neither for a quorum's progress nor for a condition of its
\* own ends: behind a full channel, beside a ticker that keeps the core busy,
\* and when the worker dies with the call in its queue.  A shutdown ends too,
\* and once the core task has ended, for whatever reason, every call does.
CallsEnd ==
    []<>(\A c \in Calls :
           call[c].pc # "off" /\ (~CoreAlive \/ call[c].kind \notin {"write", "wait", "exact"})
             => Over(c))
=============================================================================
