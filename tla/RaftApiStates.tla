--------------------------- MODULE RaftApiStates ----------------------------
(***************************************************************************)
(* The states a Raft node and its callers can be in (RaftApi), as the      *)
(* inductive invariant that the proofs about it use.                       *)
(***************************************************************************)
EXTENDS RaftApi

Positions == {"off", "flushed", "send", "recv", "ready", "stop", "join", "await", "joined",
              "ticker", "done", "gone"}
Replies == {"none", "open", "ok", "forward", "few"}
Results == Replies \cup Errors \cup {"wrong_type", "closing", "unreachable"}
CallRecord == [kind : Kinds, pc : Positions, res : Results, reply : Replies, want : Nat,
               acked : SUBSET Nat, seen : Nat, fresh : BOOLEAN]
Commands == [do : {"apply", "sm", "snapshot"}, upto : Nat, calls : SUBSET Calls]
Notes == [what : {"stored", "applied", "higher", "sm_error", "tick"}, upto : Nat]
Engine == [lead : BOOLEAN, log : Nat, committed : Nat, applied : Nat,
           pending : SUBSET [call : Calls, at : Nat]]
Metrics == [data : Nat, server : BOOLEAN,
            raft : [applied : Nat, lead : BOOLEAN, up : BOOLEAN], closed : BOOLEAN]

ApiTypes ==
  /\ call \in [Calls -> CallRecord] /\ apiq \in Seq(Calls) /\ noteq \in Seq(Notes)
  /\ smq \in Seq(Commands) /\ smApplied \in Nat /\ eng \in Engine /\ mets \in Metrics
  /\ checks \subseteq Calls /\ coreErr \in Errors \cup {"none"}
  /\ coreState.err \in Errors \cup {"none"}

\* What the worker has told the core is applied, and what it is asked to apply,
\* in this order, is committed.
NotesInv == \A i \in 1..Len(noteq) : noteq[i].what = "applied" => noteq[i].upto <= smApplied

CommandsInv ==
  \A i \in 1..Len(smq) : smq[i].do = "apply" =>
    /\ smApplied <= smq[i].upto /\ smq[i].upto <= eng.committed
    /\ \A j \in 1..Len(smq) : i < j /\ smq[j].do = "apply" => smq[i].upto <= smq[j].upto

\* The positions in order: what the metrics and the core know as applied, what
\* the worker has applied, what it is asked to apply, what is committed.
PositionsInv ==
  /\ eng.applied <= smApplied /\ mets.raft.applied <= smApplied
  /\ smApplied <= eng.committed /\ eng.committed <= eng.log
  /\ NotesInv /\ CommandsInv

NoneTwice(q) == \A i, j \in 1..Len(q) : q[i] = q[j] => i = j

\* The sender of an answer is in one place at a time: the channel, the core's
\* list of waiting writes, a command of the worker or a leadership check. What
\* waits for an entry to be applied knows which one.
QueuedInv ==
  /\ NoneTwice(apiq)
  /\ \A c \in CallsIn(apiq) :
       /\ c \notin checks /\ c \notin PendingCalls
       /\ \A i \in 1..Len(smq) : c \notin smq[i].calls

PendingInv ==
  \A p \in eng.pending :
    /\ call[p.call].kind = "write" /\ call[p.call].want = p.at /\ p.at <= eng.log
    /\ \A i \in 1..Len(smq) : p.call \notin smq[i].calls

CommandedInv ==
  \A i \in 1..Len(smq) : \A c \in smq[i].calls :
    /\ smq[i].do = "apply" => call[c].kind = "write" /\ call[c].want <= smq[i].upto
    /\ smq[i].do # "apply" => call[c].kind = smq[i].do
    /\ \A j \in 1..Len(smq) : c \in smq[j].calls => i = j

ChecksInv == \A c \in checks : call[c].kind = "read"

HeldInv == QueuedInv /\ PendingInv /\ CommandedInv /\ ChecksInv

\* What one call has been told: a write only of an entry that is applied, a
\* read only of a position that covers what was acknowledged when it began.
ToldInv(c) ==
  /\ call[c].pc \in {"off", "flushed", "send"} =>
       ~SenderHeld(c) /\ call[c].reply = "none" /\ call[c].res = "none"
  /\ SenderHeld(c) => call[c].reply \in {"none", "open"}
  /\ call[c].kind \in {"write", "read", "lease"} /\ call[c].res = "ok" => call[c].reply = "ok"
  /\ call[c].pc = "flushed" => call[c].kind = "transfer"
  /\ call[c].pc = "ready" =>
       \/ call[c].kind \in {"wait", "exact"}
       \/ call[c].kind \in {"read", "lease"} /\ call[c].reply = "ok"
  /\ call[c].pc = "ticker" => call[c].kind = "shutdown"
  /\ call[c].kind = "write" /\ call[c].reply = "ok" => call[c].want <= smApplied
  /\ call[c].seen <= smApplied /\ \A n \in call[c].acked : n <= smApplied
  /\ call[c].kind \in {"read", "lease"} /\ (call[c].reply = "ok" \/ c \in checks) =>
       \A n \in call[c].acked : n <= call[c].want
  /\ call[c].kind \in {"read", "lease"} /\ call[c].res = "ok" =>
       \A n \in call[c].acked : n <= call[c].seen

ApiInv == ApiTypes /\ PositionsInv /\ HeldInv /\ \A c \in Calls : ToldInv(c)
=============================================================================
