----------------------------- MODULE RaftProofs -----------------------------
(***************************************************************************)
(* What holds of a Raft node as its callers see it (RaftApi), from the     *)
(* lemmas of RaftCoreProofs and one for every step of a caller.            *)
(***************************************************************************)
EXTENDS RaftCoreProofs

-----------------------------------------------------------------------------
(* The callers *)

\* A step of one call: its own record changes, and nothing it shares.
Steps(c, new) ==
  /\ call' = [call EXCEPT ![c] = new]
  /\ UNCHANGED <<apiq, noteq, smq, smApplied, eng, mets, checks, coreErr>>
  /\ coreState'.err \in Errors \cup {"none"}

LEMMA CallSteps ==
  ASSUME ApiInv, NEW c \in Calls, NEW new \in CallRecord, Steps(c, new),
         new.kind = call[c].kind, new.want = call[c].want \/ ~SenderHeld(c), ToldInv(c)'
  PROVE  ApiInv'
<1>1. call' \in [Calls -> CallRecord] /\ \A d \in Calls : call'[d] = IF d = c THEN new ELSE call[d]
  BY Zenon DEF ApiInv, ApiTypes, Steps
<1>2. ApiTypes'
  BY <1>1, Zenon DEF ApiInv, ApiTypes, Steps
<1>3. PositionsInv'
  BY Zenon DEF ApiInv, PositionsInv, NotesInv, CommandsInv, Steps
<1>4. \A d \in Calls : call'[d].kind = call[d].kind
  BY <1>1, Zenon
<1>5. \A d \in Calls : SenderHeld(d) => call'[d].want = call[d].want
  BY <1>1, Zenon
<1>6. \A p \in eng.pending : p.call \in Calls /\ call'[p.call].want = call[p.call].want
                             /\ call'[p.call].kind = call[p.call].kind
  <2>1. \A p \in eng.pending : p.call \in Calls /\ SenderHeld(p.call)
    BY Zenon DEF ApiInv, ApiTypes, Engine, SenderHeld
  <2> QED BY <1>4, <1>5, <2>1, Zenon
<1>7. \A i \in 1..Len(smq) : \A d \in smq[i].calls :
        d \in Calls /\ call'[d].want = call[d].want /\ call'[d].kind = call[d].kind
  <2>1. \A i \in 1..Len(smq) : \A d \in smq[i].calls : d \in Calls /\ SenderHeld(d)
    <3>1. \A i \in 1..Len(smq) : smq[i] \in Commands
      BY DEF ApiInv, ApiTypes
    <3>2. \A i \in 1..Len(smq) : smq[i].calls \subseteq Calls
      BY <3>1, Zenon DEF Commands
    <3> QED BY <3>2, Zenon DEF SenderHeld
  <2> QED BY <1>4, <1>5, <2>1, Zenon
<1>8. \A d \in checks : call'[d].kind = call[d].kind
  BY <1>4, Zenon DEF ApiInv, ApiTypes
<1>9. HeldInv'
  <2>1. QueuedInv'
    BY DEF ApiInv, HeldInv, QueuedInv, NoneTwice, Steps, PendingCalls, CallsIn
  <2>2. PendingInv'
    BY <1>6 DEF ApiInv, HeldInv, PendingInv, Steps
  <2>3. CommandedInv'
    BY <1>7 DEF ApiInv, HeldInv, CommandedInv, Steps
  <2>4. ChecksInv'
    BY <1>8, Zenon DEF ApiInv, HeldInv, ChecksInv, Steps
  <2> QED BY <2>1, <2>2, <2>3, <2>4 DEF HeldInv
<1>10. ASSUME NEW d \in Calls, d # c PROVE ToldInv(d)'
  <2>1. ToldInv(d) /\ call'[d] = call[d]
    BY <1>1, <1>10, Zenon DEF ApiInv
  <2> QED BY <2>1 DEF ToldInv, SenderHeld, Steps, CallsIn
<1> QED BY <1>2, <1>3, <1>9, <1>10 DEF ApiInv

\* A call goes on to a place that says nothing of what it was told.
LEMMA CallGoes ==
  ASSUME ApiInv, NEW c \in Calls, NEW pc \in Positions \ {"off", "flushed", "send", "ready", "ticker"},
         Steps(c, [call[c] EXCEPT !.pc = pc])
  PROVE  ApiInv'
<1> DEFINE new == [call[c] EXCEPT !.pc = pc]
<1>1. /\ new \in CallRecord /\ new.kind = call[c].kind /\ new.pc = pc /\ new.res = call[c].res
      /\ new.reply = call[c].reply /\ new.want = call[c].want /\ new.acked = call[c].acked
      /\ new.seen = call[c].seen
  BY Zenon DEF ApiInv, ApiTypes, CallRecord
<1>2. Steps(c, new)
  BY Zenon
<1> HIDE DEF new
<1>3. call'[c] = new
  BY <1>2, Zenon DEF Steps, ApiInv, ApiTypes
<1>4. ToldInv(c)
  BY Zenon DEF ApiInv
<1>5. ToldInv(c)'
  BY <1>1, <1>2, <1>3, <1>4 DEF ToldInv, SenderHeld, Steps, CallsIn
<1> QED BY <1>1, <1>2, <1>5, CallSteps, Zenon

\* A call ends with a result.
LEMMA CallEnds ==
  ASSUME ApiInv, NEW c \in Calls, NEW res \in Results,
         Steps(c, [call[c] EXCEPT !.pc = "done", !.res = res]),
         res = "ok" /\ call[c].kind \in {"write", "read", "lease"} =>
           /\ call[c].reply = "ok"
           /\ call[c].kind # "write" => \A n \in call[c].acked : n <= call[c].seen
  PROVE  ApiInv'
<1> DEFINE new == [call[c] EXCEPT !.pc = "done", !.res = res]
<1>1. /\ new \in CallRecord /\ new.kind = call[c].kind /\ new.pc = "done" /\ new.res = res
      /\ new.reply = call[c].reply /\ new.want = call[c].want /\ new.acked = call[c].acked
      /\ new.seen = call[c].seen
  BY Zenon DEF ApiInv, ApiTypes, CallRecord, Positions
<1>2. Steps(c, new)
  BY Zenon
<1> HIDE DEF new
<1>3. call'[c] = new
  BY <1>2, Zenon DEF Steps, ApiInv, ApiTypes
<1>4. ToldInv(c)
  BY Zenon DEF ApiInv
<1>5. ToldInv(c)'
  BY <1>1, <1>2, <1>3, <1>4 DEF ToldInv, SenderHeld, Steps, CallsIn
<1> QED BY <1>1, <1>2, <1>5, CallSteps

LEMMA AckedAreApplied == ApiInv => \A n \in Acked : n \in Nat /\ n <= smApplied
<1> SUFFICES ASSUME ApiInv, NEW c \in Calls, call[c].kind = "write", call[c].res = "ok"
             PROVE  call[c].want \in Nat /\ call[c].want <= smApplied
  BY Zenon DEF Acked
<1>1. ToldInv(c) /\ call[c] \in CallRecord
  BY Zenon DEF ApiInv, ApiTypes
<1> QED BY <1>1, Zenon DEF ToldInv, CallRecord

LEMMA StartKeeps ==
  ASSUME ApiInv, NEW c \in Calls, NEW pc \in Positions, NEW want \in Nat, Start(c, pc, want),
         \/ pc = "send"
         \/ pc = "flushed" /\ call[c].kind = "transfer"
         \/ pc = "ready" /\ call[c].kind \in {"wait", "exact"}
  PROVE  ApiInv'
<1> DEFINE new == [call[c] EXCEPT !.pc = pc, !.want = want, !.fresh = TRUE, !.acked = Acked]
<1>1. Acked \in SUBSET Nat
  BY AckedAreApplied, Zenon
<1>2. /\ new \in CallRecord /\ new.kind = call[c].kind /\ new.pc = pc /\ new.res = call[c].res
      /\ new.reply = call[c].reply /\ new.acked = Acked /\ new.seen = call[c].seen
  BY <1>1, Zenon DEF ApiInv, ApiTypes, CallRecord
<1>3. Steps(c, new) /\ call[c].pc = "off"
  BY Zenon DEF Start, Set, Steps, ApiInv, ApiTypes, coreVars, smVars
<1> HIDE DEF new
<1>4. call'[c] = new
  BY <1>3, Zenon DEF Steps, ApiInv, ApiTypes
<1>5. ToldInv(c)
  BY Zenon DEF ApiInv
<1>6. ToldInv(c)'
  BY <1>2, <1>3, <1>4, <1>5, AckedAreApplied DEF ToldInv, SenderHeld, Steps, CallsIn
<1> QED BY <1>2, <1>3, <1>5, <1>6, CallSteps DEF ToldInv

LEMMA BeginKeeps ==
  ASSUME ApiInv, NEW c \in Calls, Begin(c)
  PROVE  ApiInv'
<1>1. 0 \in Nat /\ 1 \in Nat /\ {"send", "flushed", "ready"} \subseteq Positions
  BY Zenon DEF Positions
<1>2. \/ Start(c, "send", 0)
      \/ Start(c, "flushed", 0) /\ call[c].kind = "transfer"
      \/ Start(c, "ready", 1) /\ call[c].kind \in {"wait", "exact"}
  BY Zenon DEF Begin, client_write, ensure_linearizable, ProtocolCall, with_raft_state,
         with_state_machine, Trigger, handle_transfer_leader, applied_index
<1> QED BY <1>1, <1>2, StartKeeps, Zenon

\* The steps of a call that only move it.
LEMMA MovesKeep ==
  ASSUME ApiInv, NEW c \in Calls,
         \/ shutdown(c) \/ RecvFails(c) \/ join_core_task(c) \/ Joined(c) \/ Told(c)
         \/ get_core_stop_error(c) \/ ShutdownEnds(c) \/ Drop(c)
  PROVE  ApiInv'
<1> USE DEF Goto, Set, End, Steps, smVars, coreVars
<1>0. coreErr \in Errors \cup {"none"} /\ coreState.err \in Errors \cup {"none"}
  BY Zenon DEF ApiInv, ApiTypes
<1>1. CASE shutdown(c)
  <2>1. Steps(c, [call[c] EXCEPT !.pc = "stop"])
    BY <1>0, <1>1, Zenon DEF shutdown
  <2> QED BY <2>1, CallGoes, Zenon DEF Positions
<1>2. CASE RecvFails(c)
  <2>1. \/ Steps(c, [call[c] EXCEPT !.pc = "stop"])
        \/ Steps(c, [call[c] EXCEPT !.pc = "done", !.res = "wrong_type"])
    BY <1>0, <1>2, Zenon DEF RecvFails
  <2> QED BY <2>1, CallGoes, CallEnds, Zenon DEF Positions, Results
<1>3. CASE join_core_task(c)
  <2>1. \E pc \in {"join", "await", "joined"} : Steps(c, [call[c] EXCEPT !.pc = pc])
    BY <1>0, <1>3 DEF join_core_task
  <2> QED BY <2>1, CallGoes, Zenon DEF Positions
<1>4. CASE Joined(c)
  <2>1. Steps(c, [call[c] EXCEPT !.pc = "joined"])
    BY <1>0, <1>4, Zenon DEF Joined
  <2> QED BY <2>1, CallGoes, Zenon DEF Positions
<1>5. CASE Told(c)
  <2>1. Steps(c, [call[c] EXCEPT !.pc = "joined"])
    BY <1>0, <1>5, Zenon DEF Told
  <2> QED BY <2>1, CallGoes, Zenon DEF Positions
<1>6. CASE get_core_stop_error(c)
  <2> DEFINE res == IF coreState.s = "done" THEN coreState.err ELSE "unreachable"
  <2>1. Steps(c, [call[c] EXCEPT !.pc = "done", !.res = res])
    BY <1>0, <1>6, Zenon DEF get_core_stop_error
  <2>2. res \in Results /\ res # "ok"
    BY <1>0, Zenon DEF Results, Replies, Errors
  <2> HIDE DEF res
  <2> QED BY <2>1, <2>2, CallEnds, Zenon
<1>7. CASE ShutdownEnds(c)
  <2>1. Steps(c, [call[c] EXCEPT !.pc = "done", !.res = "ok"])
    BY <1>0, <1>7 DEF ShutdownEnds
  <2>2. call[c].kind = "shutdown"
    BY <1>7 DEF ShutdownEnds, ApiInv, ToldInv
  <2> QED BY <2>1, <2>2, CallEnds, Zenon DEF Results, Replies
<1>8. CASE Drop(c)
  <2>1. Steps(c, [call[c] EXCEPT !.pc = "gone"])
    BY <1>0, <1>8, Zenon DEF Drop
  <2> QED BY <2>1, CallGoes, Zenon DEF Positions
<1> QED BY <1>1, <1>2, <1>3, <1>4, <1>5, <1>6, <1>7, <1>8, Zenon


LEMMA FlushedKeeps ==
  ASSUME ApiInv, NEW c \in Calls, ensure_log_flushed_for_transfer_leader(c)
  PROVE  ApiInv'
<1> DEFINE new == [call[c] EXCEPT !.pc = "send"]
<1>1. ToldInv(c) /\ call[c].pc = "flushed" /\ call[c].kind = "transfer"
  BY Zenon DEF ApiInv, ToldInv, ensure_log_flushed_for_transfer_leader
<1>2. \/ Steps(c, new)
      \/ Steps(c, [call[c] EXCEPT !.pc = "done", !.res = "ok"])
  BY Zenon DEF ensure_log_flushed_for_transfer_leader, Goto, Set, End, Steps, smVars, coreVars,
         ApiInv, ApiTypes
<1>3. /\ new \in CallRecord /\ new.kind = call[c].kind /\ new.pc = "send" /\ new.res = call[c].res
      /\ new.reply = call[c].reply /\ new.want = call[c].want /\ new.acked = call[c].acked
      /\ new.seen = call[c].seen
  BY Zenon DEF ApiInv, ApiTypes, CallRecord, Positions
<1> HIDE DEF new
<1>4. CASE Steps(c, new)
  <2>1. call'[c] = new
    BY <1>4, Zenon DEF Steps, ApiInv, ApiTypes
  <2>2. ToldInv(c)'
    BY <1>1, <1>3, <1>4, <2>1 DEF ToldInv, SenderHeld, Steps, CallsIn
  <2> QED BY <1>3, <1>4, <2>2, CallSteps
<1>5. CASE Steps(c, [call[c] EXCEPT !.pc = "done", !.res = "ok"])
  <2>1. "ok" \in Results
    BY Zenon DEF Results, Replies
  <2> QED BY <1>1, <1>5, <2>1, CallEnds, Zenon
<1> QED BY <1>2, <1>4, <1>5

LEMMA ShutdownTickKeeps ==
  ASSUME ApiInv, NEW c \in Calls, ShutdownTick(c)
  PROVE  ApiInv'
<1> DEFINE new == [call[c] EXCEPT !.pc = "ticker"]
<1>1. ToldInv(c) /\ call[c].kind = "shutdown"
  BY Zenon DEF ApiInv, ShutdownTick
<1>2. \/ Steps(c, new)
      \/ Steps(c, [call[c] EXCEPT !.pc = "done", !.res = "ok"])
  BY Zenon DEF ShutdownTick, Goto, Set, End, Steps, smVars, coreVars, ApiInv, ApiTypes
<1>3. /\ new \in CallRecord /\ new.kind = call[c].kind /\ new.pc = "ticker" /\ new.res = call[c].res
      /\ new.reply = call[c].reply /\ new.want = call[c].want /\ new.acked = call[c].acked
      /\ new.seen = call[c].seen
  BY Zenon DEF ApiInv, ApiTypes, CallRecord, Positions
<1> HIDE DEF new
<1>4. CASE Steps(c, new)
  <2>1. call'[c] = new
    BY <1>4, Zenon DEF Steps, ApiInv, ApiTypes
  <2>2. ToldInv(c)'
    BY <1>1, <1>3, <1>4, <2>1 DEF ToldInv, SenderHeld, Steps, CallsIn
  <2> QED BY <1>3, <1>4, <2>2, CallSteps
<1>5. CASE Steps(c, [call[c] EXCEPT !.pc = "done", !.res = "ok"])
  <2>1. "ok" \in Results
    BY Zenon DEF Results, Replies
  <2> QED BY <1>1, <1>5, <2>1, CallEnds, Zenon
<1> QED BY <1>2, <1>4, <1>5, Zenon

LEMMA RecvKeeps ==
  ASSUME ApiInv, NEW c \in Calls, recv_msg(c)
  PROVE  ApiInv'
<1> DEFINE new == [call[c] EXCEPT !.pc = "ready"]
<1>1. ToldInv(c) /\ call[c] \in CallRecord
  BY Zenon DEF ApiInv, ApiTypes
<1>2. \/ /\ Steps(c, new) /\ call[c].reply = "ok" /\ call[c].kind \in {"read", "lease"}
      \/ /\ Steps(c, [call[c] EXCEPT !.pc = "done", !.res = call[c].reply])
         /\ call[c].reply = "ok" /\ call[c].kind \in {"read", "lease"} => ~(call[c].seen < call[c].want)
  BY Zenon DEF recv_msg, Goto, Set, End, Steps, smVars, coreVars, ApiInv, ApiTypes
<1>3. /\ new \in CallRecord /\ new.kind = call[c].kind /\ new.pc = "ready" /\ new.res = call[c].res
      /\ new.reply = call[c].reply /\ new.want = call[c].want /\ new.acked = call[c].acked
      /\ new.seen = call[c].seen
  BY Zenon DEF ApiInv, ApiTypes, CallRecord, Positions
<1> HIDE DEF new
<1>4. CASE Steps(c, new) /\ call[c].reply = "ok" /\ call[c].kind \in {"read", "lease"}
  <2>1. call'[c] = new
    BY <1>4, Zenon DEF Steps, ApiInv, ApiTypes
  <2>2. ToldInv(c)'
    BY <1>1, <1>3, <1>4, <2>1 DEF ToldInv, SenderHeld, Steps, CallsIn
  <2> QED BY <1>3, <1>4, <2>2, CallSteps, Zenon
<1>5. CASE /\ Steps(c, [call[c] EXCEPT !.pc = "done", !.res = call[c].reply])
           /\ call[c].reply = "ok" /\ call[c].kind \in {"read", "lease"} => ~(call[c].seen < call[c].want)
  <2>1. call[c].reply \in Results /\ call[c].seen \in Nat /\ call[c].want \in Nat
    BY <1>1, Zenon DEF Results, CallRecord
  <2>2. call[c].reply = "ok" /\ call[c].kind \in {"read", "lease"} =>
          \A n \in call[c].acked : n <= call[c].seen
    <3>1. call[c].acked \subseteq Nat
      BY <1>1, Zenon DEF CallRecord
    <3> QED BY <1>1, <1>5, <2>1, <3>1 DEF ToldInv
  <2> QED BY <1>5, <2>1, <2>2, CallEnds, Zenon
<1> QED BY <1>2, <1>4, <1>5, Zenon

LEMMA MetricsKeeps ==
  ASSUME ApiInv, NEW c \in Calls, metrics(c)
  PROVE  ApiInv'
<1> DEFINE seen == [call[c] EXCEPT !.pc = "done", !.res = "ok", !.seen = mets.raft.applied]
           stale == [call[c] EXCEPT !.fresh = FALSE]
<1>0. ToldInv(c) /\ call[c] \in CallRecord /\ call[c].pc = "ready" /\ mets.raft.applied \in Nat
  BY Zenon DEF ApiInv, ApiTypes, metrics, Metrics
<1>1. \/ Condition(c) /\ Steps(c, seen)
      \/ Steps(c, stale)
      \/ Steps(c, [call[c] EXCEPT !.pc = "done", !.res = "closing"])
      \/ Steps(c, [call[c] EXCEPT !.pc = "stop"])
  BY Zenon DEF metrics, Goto, Set, End, Steps, smVars, coreVars, ApiInv, ApiTypes
<1>2. /\ seen \in CallRecord /\ seen.kind = call[c].kind /\ seen.pc = "done" /\ seen.res = "ok"
      /\ seen.reply = call[c].reply /\ seen.want = call[c].want /\ seen.acked = call[c].acked
      /\ seen.seen = mets.raft.applied
  BY <1>0, Zenon DEF CallRecord, Positions, Results, Replies
<1>3. /\ stale \in CallRecord /\ stale.kind = call[c].kind /\ stale.pc = call[c].pc
      /\ stale.res = call[c].res /\ stale.reply = call[c].reply /\ stale.want = call[c].want
      /\ stale.acked = call[c].acked /\ stale.seen = call[c].seen
  BY <1>0, Zenon DEF CallRecord
<1> HIDE DEF seen, stale
<1>4. CASE Condition(c) /\ Steps(c, seen)
  <2>1. call'[c] = seen
    BY <1>4, Zenon DEF Steps, ApiInv, ApiTypes
  <2>2. call[c].kind \in {"read", "lease"} => mets.raft.applied >= call[c].want
    BY <1>4, Zenon DEF Condition
  <2>3. call[c].kind \in {"read", "lease"} => \A n \in call[c].acked : n <= mets.raft.applied
    <3>1. call[c].acked \subseteq Nat /\ call[c].want \in Nat
      BY <1>0, Zenon DEF CallRecord
    <3> QED BY <1>0, <2>2, <3>1 DEF ToldInv
  <2>4. mets.raft.applied <= smApplied
    BY Zenon DEF ApiInv, PositionsInv
  <2>5. ToldInv(c)'
    BY <1>0, <1>2, <1>4, <2>1, <2>3, <2>4 DEF ToldInv, SenderHeld, Steps, CallsIn
  <2> QED BY <1>2, <1>4, <2>5, CallSteps
<1>5. CASE Steps(c, stale)
  <2>1. call'[c] = stale
    BY <1>5, Zenon DEF Steps, ApiInv, ApiTypes
  <2>2. ToldInv(c)'
    BY <1>0, <1>3, <1>5, <2>1 DEF ToldInv, SenderHeld, Steps, CallsIn
  <2> QED BY <1>3, <1>5, <2>2, CallSteps
<1>6. CASE Steps(c, [call[c] EXCEPT !.pc = "done", !.res = "closing"])
  <2>1. "closing" \in Results
    BY Zenon DEF Results
  <2> QED BY <1>6, <2>1, CallEnds, Zenon
<1>7. CASE Steps(c, [call[c] EXCEPT !.pc = "stop"])
  BY <1>7, CallGoes, Zenon DEF Positions
<1> QED BY <1>1, <1>4, <1>5, <1>6, <1>7


LEMMA QueueAppended ==
  ASSUME NEW q \in Seq(Calls), NEW c \in Calls
  PROVE  /\ Append(q, c) \in Seq(Calls) /\ CallsIn(Append(q, c)) = CallsIn(q) \cup {c}
         /\ NoneTwice(q) /\ c \notin CallsIn(q) => NoneTwice(Append(q, c))
<1> DEFINE p == Append(q, c)
<1>1. /\ p \in Seq(Calls) /\ Len(p) = Len(q) + 1 /\ Len(q) \in Nat
      /\ p[Len(q) + 1] = c /\ \A i \in 1..Len(q) : p[i] = q[i]
  OBVIOUS
<1> HIDE DEF p
<1>2. CallsIn(p) = CallsIn(q) \cup {c}
  BY <1>1 DEF CallsIn
<1>3. NoneTwice(q) /\ c \notin CallsIn(q) => NoneTwice(p)
  BY <1>1 DEF NoneTwice, CallsIn
<1> QED BY <1>1, <1>2, <1>3 DEF p

\* A message of a call enters the API channel.
Enters(c, new) ==
  /\ call' = [call EXCEPT ![c] = new] /\ apiq' = Append(apiq, c)
  /\ UNCHANGED <<noteq, smq, smApplied, coreErr, eng, checks, mets, coreState>>
  /\ new.kind = call[c].kind /\ new.want = call[c].want /\ new.acked = call[c].acked
  /\ new.seen = call[c].seen /\ new.pc \in {"recv", "done"} /\ new.reply \in {"none", "open"}
  /\ new.kind \in {"write", "read", "lease"} => new.res # "ok"

LEMMA EntersKeeps ==
  ASSUME ApiInv, NEW c \in Calls, NEW new \in CallRecord, Enters(c, new), ~SenderHeld(c)
  PROVE  ApiInv'
<1>1. call' \in [Calls -> CallRecord] /\ \A d \in Calls : call'[d] = IF d = c THEN new ELSE call[d]
  BY Zenon DEF ApiInv, ApiTypes, Enters
<1>2. apiq \in Seq(Calls) /\ apiq' = Append(apiq, c) /\ c \notin CallsIn(apiq) /\ NoneTwice(apiq)
  BY Zenon DEF ApiInv, ApiTypes, HeldInv, QueuedInv, Enters, SenderHeld
<1>3. apiq' \in Seq(Calls) /\ CallsIn(apiq') = CallsIn(apiq) \cup {c} /\ NoneTwice(apiq')
  BY <1>2, QueueAppended, Zenon
<1>4. ApiTypes'
  BY <1>1, <1>3 DEF ApiInv, ApiTypes, Enters
<1>5. PositionsInv'
  BY Zenon DEF ApiInv, PositionsInv, NotesInv, CommandsInv, Enters
<1>6. \A d \in Calls : call'[d].kind = call[d].kind /\ call'[d].want = call[d].want
  BY <1>1, Zenon DEF Enters
<1>7. \A p \in eng.pending : p.call \in Calls
  BY Zenon DEF ApiInv, ApiTypes, Engine
<1>8. \A i \in 1..Len(smq) : smq[i].calls \subseteq Calls
  <2>1. \A i \in 1..Len(smq) : smq[i] \in Commands
    BY DEF ApiInv, ApiTypes
  <2> QED BY <2>1, Zenon DEF Commands
<1>9. checks \subseteq Calls
  BY Zenon DEF ApiInv, ApiTypes
<1>10. HeldInv'
  <2>1. \A d \in CallsIn(apiq') :
          /\ d \notin checks' /\ d \notin PendingCalls'
          /\ \A i \in 1..Len(smq') : d \notin smq'[i].calls
    BY <1>3 DEF ApiInv, HeldInv, QueuedInv, Enters, SenderHeld, PendingCalls
  <2>2. QueuedInv'
    BY <1>3, <2>1, Zenon DEF QueuedInv
  <2>3. PendingInv'
    BY <1>6, <1>7 DEF ApiInv, HeldInv, PendingInv, Enters
  <2>4. CommandedInv'
    BY <1>6, <1>8 DEF ApiInv, HeldInv, CommandedInv, Enters
  <2>5. ChecksInv'
    BY <1>6, <1>9 DEF ApiInv, HeldInv, ChecksInv, Enters
  <2> QED BY <2>2, <2>3, <2>4, <2>5 DEF HeldInv
<1>11. ASSUME NEW d \in Calls PROVE ToldInv(d)'
  <2>1. ToldInv(d)
    BY Zenon DEF ApiInv
  <2>2. CASE d = c
    BY <1>1, <2>1, <2>2 DEF ToldInv, Enters
  <2>3. CASE d # c
    <3>1. SenderHeld(d)' => SenderHeld(d)
      BY <1>3, <2>3, Zenon DEF SenderHeld, Enters
    <3>2. call'[d] = call[d]
      BY <1>1, <2>3, Zenon
    <3> QED BY <2>1, <3>1, <3>2 DEF ToldInv, Enters
  <2> QED BY <2>2, <2>3
<1> QED BY <1>4, <1>5, <1>10, <1>11 DEF ApiInv

LEMMA SendKeeps ==
  ASSUME ApiInv, NEW c \in Calls, send_msg(c)
  PROVE  ApiInv'
<1>1. ToldInv(c) /\ call[c] \in CallRecord /\ call[c].pc = "send" /\ ~SenderHeld(c)
      /\ call[c].reply = "none" /\ call[c].res = "none"
  BY DEF ApiInv, ApiTypes, send_msg, ToldInv
<1>2. CASE ~CoreAlive
  <2>1. Steps(c, [call[c] EXCEPT !.pc = "stop"])
    BY <1>2, Zenon DEF send_msg, Goto, Set, Steps, smVars, coreVars, ApiInv, ApiTypes
  <2> QED BY <2>1, CallGoes, Zenon DEF Positions
<1>3. CASE CoreAlive /\ SentIsAll(c)
  <2> DEFINE new == [call[c] EXCEPT !.pc = "done", !.res = "ok"]
  <2>1. call' = [call EXCEPT ![c] = new] /\ apiq' = Append(apiq, c)
        /\ UNCHANGED <<noteq, smq, smApplied, coreErr, eng, checks, mets, coreState>>
    BY <1>3, Zenon DEF send_msg, Set, End, smVars, coreVars
  <2>2. /\ new \in CallRecord /\ new.kind = call[c].kind /\ new.pc = "done" /\ new.res = "ok"
        /\ new.reply = call[c].reply /\ new.want = call[c].want /\ new.acked = call[c].acked
        /\ new.seen = call[c].seen
    BY <1>1, Zenon DEF CallRecord, Positions, Results, Replies
  <2>3. call[c].kind \in {"trigger", "transfer"}
    BY <1>3, Zenon DEF SentIsAll
  <2> HIDE DEF new
  <2>4. Enters(c, new)
    BY <1>1, <2>1, <2>2, <2>3 DEF Enters
  <2> QED BY <1>1, <2>2, <2>4, EntersKeeps
<1>4. CASE CoreAlive /\ ~SentIsAll(c)
  <2> DEFINE new == [call[c] EXCEPT !.pc = "recv", !.reply = "open"]
  <2>1. call' = [call EXCEPT ![c] = new] /\ apiq' = Append(apiq, c)
        /\ UNCHANGED <<noteq, smq, smApplied, coreErr, eng, checks, mets, coreState>>
    BY <1>4, Zenon DEF send_msg, Set, smVars, coreVars
  <2>2. /\ new \in CallRecord /\ new.kind = call[c].kind /\ new.pc = "recv" /\ new.res = call[c].res
        /\ new.reply = "open" /\ new.want = call[c].want /\ new.acked = call[c].acked
        /\ new.seen = call[c].seen
    BY <1>1, Zenon DEF CallRecord, Positions, Replies
  <2> HIDE DEF new
  <2>3. Enters(c, new)
    BY <1>1, <2>1, <2>2, Zenon DEF Enters
  <2> QED BY <1>1, <2>2, <2>3, EntersKeeps
<1> QED BY <1>2, <1>3, <1>4

LEMMA CallStepKeeps ==
  ASSUME ApiInv, NEW c \in Calls, shutdown(c) \/ Begin(c) \/ CallStep(c) \/ Drop(c)
  PROVE  ApiInv'
BY BeginKeeps, MovesKeep, FlushedKeeps, ShutdownTickKeeps, RecvKeeps, MetricsKeeps, SendKeeps, Zenon
DEF CallStep

-----------------------------------------------------------------------------
(* What holds of a node *)

LEMMA ApiInvInit == ApiInit => ApiInv
<1> SUFFICES ASSUME ApiInit PROVE ApiInv
  BY Zenon
<1>1. PICK load \in Loads : call = [c \in Calls |-> NoCall(load.kinds[c])]
  BY Zenon DEF ApiInit
<1>2. \A c \in Calls : /\ call[c] \in CallRecord /\ call[c].pc = "off" /\ call[c].res = "none"
                       /\ call[c].reply = "none" /\ call[c].acked = {} /\ call[c].seen = 0
  BY <1>1, ApiAssumption, Zenon DEF NoCall, CallRecord, Positions, Results, Replies
<1>3. call \in [Calls -> CallRecord]
  BY <1>1, <1>2, Zenon
<1>4. /\ apiq = <<>> /\ noteq = <<>> /\ smq = <<>> /\ smApplied = 0 /\ checks = {}
      /\ coreErr = "none" /\ coreState.err = "none"
  BY Zenon DEF ApiInit
<1>5. /\ eng \in Engine /\ eng.log = 0 /\ eng.committed = 0 /\ eng.applied = 0 /\ eng.pending = {}
      /\ mets \in Metrics /\ mets.raft.applied = 0
  BY Zenon DEF ApiInit, Engine, Metrics
<1>6. ApiTypes
  BY <1>3, <1>4, <1>5 DEF ApiTypes
<1>7. PositionsInv
  BY <1>4, <1>5 DEF PositionsInv, NotesInv, CommandsInv
<1>8. HeldInv
  BY <1>4, <1>5 DEF HeldInv, QueuedInv, PendingInv, CommandedInv, ChecksInv, NoneTwice, CallsIn
<1>9. ASSUME NEW c \in Calls PROVE ToldInv(c)
  <2>1. ~SenderHeld(c)
    BY <1>4, <1>5 DEF SenderHeld, CallsIn
  <2> QED BY <1>2, <1>4, <2>1 DEF ToldInv
<1> QED BY <1>6, <1>7, <1>8, <1>9 DEF ApiInv


LEMMA ApiInvNext == ApiInv /\ [ApiNext]_apiVars => ApiInv'
<1> SUFFICES ASSUME ApiInv, [ApiNext]_apiVars PROVE ApiInv'
  BY Zenon
<1>1. ASSUME NEW c \in Calls, shutdown(c) \/ Begin(c) \/ CallStep(c) \/ Drop(c) PROVE ApiInv'
  BY <1>1, CallStepKeeps, Zenon
<1>2. CASE CoreStep \/ CorePanics
  BY <1>2, CoreStepKeeps, Zenon
<1>3. CASE TaskStep \/ tick_loop \/ enable \/ Hears
  BY <1>3, TaskStepKeeps, Zenon
<1>4. CASE UNCHANGED apiVars
  <2>1. UNCHANGED <<call, apiq, noteq, smq, smApplied, eng, checks, mets, coreState, coreErr>>
    BY <1>4, Zenon DEF apiVars
  <2> QED BY <2>1, MoveOnKeeps DEF ApiInv, ApiTypes
<1> QED BY <1>1, <1>2, <1>3, <1>4, Zenon DEF ApiNext

LEMMA ApiInvAlways == ApiSpec => []ApiInv
BY ApiInvInit, ApiInvNext, PTL DEF ApiSpec

\* ensure_linearizable: whatever the calls, the sizes of the channels and the
\* order in which the tasks run, a read that may go ahead covers every write
\* that was answered before it began, and the state machine has reached it.
THEOREM ReadsCoverAcks == ApiSpec => []ReadCoversAcks
<1>1. ApiInv => ReadCoversAcks
  BY Zenon DEF ApiInv, ToldInv, ReadCoversAcks
<1> QED BY <1>1, ApiInvAlways, PTL
=============================================================================
