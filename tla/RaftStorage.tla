---------------------------- MODULE RaftStorage ----------------------------
(***************************************************************************)
(* What one node keeps for Raft (octopii/src/openraft/storage.rs): the log *)
(* store, held in memory and written record by record to a write-ahead     *)
(* log, and the state machine, held in memory only.  A node that starts    *)
(* replays the records the write-ahead log hands out, and openraft then    *)
(* applies the committed part of the log again.                            *)
(*                                                                         *)
(* openraft (vendored) calls the store one operation at a time.  A log     *)
(* entry is abstracted to its term and a vote to the term it is for; log   *)
(* indexes start at 1, and 0 stands for None.                              *)
(***************************************************************************)
EXTENDS Integers, SequencesExt

CONSTANTS MaxTerm,     \* bound on terms
          MaxIndex,    \* bound on log indexes
          MaxRecords,  \* bound on the records written
          MaxCrashes   \* bound on the number of crashes

ASSUME StorageAssumption ==
  {MaxTerm, MaxIndex, MaxRecords, MaxCrashes} \subseteq Nat

VARIABLES inner,    \* MemLogStoreInner: log, committed, vote, last_purged
          op,       \* the records of the operation in progress, and how many
                    \* of them are written
          disk,     \* the records in the write-ahead log
          readPos,  \* how many of them read_all has handed out, durably
          sm,       \* the terms of the entries the state machine has applied
          snapshot, \* last_log_id of the current snapshot
          node,     \* "up"; "stopped" by a storage error; "down"; "failed" to start
          promised, \* the store as finished operations have left it
          chosen,   \* the terms of the entries that have committed
          crashes

storageVars ==
  <<inner, op, disk, readPos, sm, snapshot, node, promised, chosen, crashes>>

EmptyStore == [log |-> <<>>, committed |-> 0, vote |-> 0, last_purged |-> 0]

NoOp == [records |-> <<>>, written |-> 0]

Index == 1..MaxIndex
Term  == 1..MaxTerm

\* WalLogRecord.
Record ==
  [kind : {"LogEntry"}, index : Index, term : Term]
    \cup [kind : {"Vote"}, term : Term]
    \cup [kind : {"Committed", "Purged", "Truncated"}, index : Index]

IsStore(s) ==
  /\ DOMAIN s.log \subseteq Index /\ \A i \in DOMAIN s.log : s.log[i] \in Term
  /\ s.committed \in 0..MaxIndex
  /\ s.vote \in 0..MaxTerm
  /\ s.last_purged \in 0..MaxIndex

\* The type of the state.
StorageTypeOK ==
  /\ IsStore(inner) /\ IsStore(promised)
  /\ op.records \in Seq(Record) /\ op.written \in 0..Len(op.records)
  /\ disk \in Seq(Record) /\ Len(disk) <= MaxRecords
  /\ readPos \in 0..Len(disk)
  /\ sm \in Seq(Term) /\ chosen \in Seq(Term)
  /\ snapshot \in 0..Len(sm)
  /\ node \in {"up", "stopped", "down", "failed"}
  /\ crashes \in 0..MaxCrashes

StorageInit ==
  /\ inner = EmptyStore /\ promised = EmptyStore
  /\ op = NoOp /\ disk = <<>> /\ readPos = 0
  /\ sm = <<>> /\ chosen = <<>> /\ snapshot = 0
  /\ node = "up" /\ crashes = 0

-----------------------------------------------------------------------------
\* Faulty: recovery skips truncations and keeps the first entry of an index.
BadReplayed(s, r) ==
  CASE r.kind = "LogEntry"  -> [s EXCEPT !.log = @ @@ (r.index :> r.term)]
    [] r.kind = "Vote"      -> [s EXCEPT !.vote = r.term]
    [] r.kind = "Committed" -> [s EXCEPT !.committed = r.index]
    [] r.kind = "Purged"    -> [s EXCEPT !.last_purged = r.index]
    [] r.kind = "Truncated" -> s

\* What recovery does with one record.
Replayed(s, r) ==
  CASE r.kind = "LogEntry"  -> [s EXCEPT !.log = (r.index :> r.term) @@ @]
    [] r.kind = "Vote"      -> [s EXCEPT !.vote = r.term]
    [] r.kind = "Committed" -> [s EXCEPT !.committed = r.index]
    [] r.kind = "Purged"    ->
         [s EXCEPT !.last_purged = r.index,
                   !.log = Restrict(@, {i \in DOMAIN @ : i > r.index})]
    [] r.kind = "Truncated" ->
         [s EXCEPT !.log = Restrict(@, {i \in DOMAIN @ : i < r.index})]

recover_from_wal(records) == FoldLeft(Replayed, EmptyStore, records)

\* get_log_state: the last entry, or the last purged one.
LastIndex(s) == Max(DOMAIN s.log \cup {s.last_purged})

-----------------------------------------------------------------------------
(* The operations openraft calls.  Each changes the store in memory first  *)
(* and then writes its records one at a time.                              *)

\* openraft calls when no operation is in progress.
Call(store, records) ==
  /\ node = "up" /\ op = NoOp
  /\ Len(disk) + Len(records) <= MaxRecords
  /\ inner' = store
  /\ op' = [records |-> records, written |-> 0]
  /\ UNCHANGED <<disk, readPos, sm, snapshot, node, promised, crashes>>

save_vote(t) ==
  /\ t > inner.vote
  /\ Call([inner EXCEPT !.vote = t], <<[kind |-> "Vote", term |-> t]>>)
  /\ UNCHANGED chosen

\* append of k entries of term t behind the last one.
append(t, k) ==
  LET next == LastIndex(inner) + 1
      new  == [i \in next..(next + k - 1) |-> t]
  IN  /\ t <= inner.vote /\ next + k - 1 <= MaxIndex
      /\ Call([inner EXCEPT !.log = new @@ @],
              [j \in 1..k |-> [kind |-> "LogEntry", index |-> next + j - 1, term |-> t]])
      /\ UNCHANGED chosen

\* A follower drops a suffix that another leader's log contradicts.
truncate(i) ==
  /\ i \in DOMAIN inner.log /\ i > Len(chosen)
  /\ Call([inner EXCEPT !.log = Restrict(@, {j \in DOMAIN @ : j < i})],
          <<[kind |-> "Truncated", index |-> i]>>)
  /\ UNCHANGED chosen

\* The log is purged behind a snapshot.
purge(i) ==
  /\ i \in inner.last_purged + 1..snapshot
  /\ Call([inner EXCEPT !.last_purged = i,
                        !.log = Restrict(@, {j \in DOMAIN @ : j > i})],
          <<[kind |-> "Purged", index |-> i]>>)
  /\ UNCHANGED chosen

save_committed(i) ==
  /\ i \in DOMAIN inner.log /\ i > inner.committed
  /\ Call([inner EXCEPT !.committed = i], <<[kind |-> "Committed", index |-> i]>>)
  /\ chosen' = chosen \o [j \in 1..(i - Len(chosen)) |-> inner.log[Len(chosen) + j]]

\* persist_record writes the next record; behind the last one the operation
\* answers Ok.
persist_record ==
  /\ node = "up" /\ op # NoOp
  /\ disk' = Append(disk, op.records[op.written + 1])
  /\ IF op.written + 1 = Len(op.records)
     THEN op' = NoOp /\ promised' = inner
     ELSE op' = [op EXCEPT !.written = @ + 1] /\ UNCHANGED promised
  /\ UNCHANGED <<inner, readPos, sm, snapshot, node, chosen, crashes>>

\* The write fails: the operation answers Err, a storage error that stops the
\* Raft core, with the store in memory already changed.
PersistFails ==
  /\ node = "up" /\ op # NoOp
  /\ node' = "stopped"
  /\ UNCHANGED <<inner, op, disk, readPos, sm, snapshot, promised, chosen, crashes>>

-----------------------------------------------------------------------------
(* The state machine.                                                      *)

\* MemStateMachine::apply of the next committed entry.
apply ==
  /\ node = "up" /\ op = NoOp
  /\ Len(sm) < inner.committed
  /\ sm' = Append(sm, inner.log[Len(sm) + 1])
  /\ UNCHANGED <<inner, op, disk, readPos, snapshot, node, promised, chosen, crashes>>

\* The snapshot is kept in memory, and its data is a map nothing ever fills.
build_snapshot ==
  /\ node = "up" /\ op = NoOp
  /\ snapshot # Len(sm)
  /\ snapshot' = Len(sm)
  /\ UNCHANGED <<inner, op, disk, readPos, sm, node, promised, chosen, crashes>>

-----------------------------------------------------------------------------
(* Crashes and restarts.                                                   *)

Crash ==
  /\ node # "down" /\ crashes < MaxCrashes
  /\ crashes' = crashes + 1
  /\ node' = "down"
  /\ inner' = EmptyStore /\ sm' = <<>> /\ snapshot' = 0
  /\ UNCHANGED <<op, disk, readPos, promised, chosen>>

\* openraft's start on the recovered store: the committed entries are applied
\* again from the first one, which fails when some are not in the log.
CanStart(s) ==
  /\ s.committed > 0 => s.last_purged = 0
  /\ DOMAIN s.log = s.last_purged + 1..LastIndex(s)
  /\ s.committed <= LastIndex(s)

\* Faulty: recovery reads the write-ahead log but for its last record.
BadRecover ==
  /\ node = "down"
  /\ inner' = recover_from_wal(SubSeq(disk, readPos + 1, Len(disk) - 1))
  /\ readPos' = Len(disk)
  /\ node' = "up"
  /\ op' = NoOp /\ promised' = inner'
  /\ UNCHANGED <<disk, sm, snapshot, chosen, crashes>>

\* WalLogStore::new recovers from what read_all returns; read_all reads with
\* checkpoints, so the same records are never returned again.
Recover ==
  /\ node = "down"
  /\ inner' = recover_from_wal(SubSeq(disk, readPos + 1, Len(disk)))
  /\ readPos' = Len(disk)
  /\ IF CanStart(inner')
     THEN /\ node' = "up"
          /\ sm' = [i \in 1..inner'.committed |-> inner'.log[i]]
     ELSE /\ node' = "failed"
          /\ UNCHANGED sm
  /\ op' = NoOp /\ promised' = inner'
  /\ UNCHANGED <<disk, snapshot, chosen, crashes>>

StorageNext ==
  \/ \E t \in Term : save_vote(t)
  \/ \E t \in Term, k \in 1..2 : append(t, k)
  \/ \E i \in Index : truncate(i)
  \/ \E i \in Index : purge(i)
  \/ \E i \in Index : save_committed(i)
  \/ persist_record
  \/ PersistFails
  \/ apply
  \/ build_snapshot
  \/ Crash
  \/ Recover

StorageSpec == StorageInit /\ [][StorageNext]_storageVars

-----------------------------------------------------------------------------
\* Crash recovery: the store a node recovers is the one its finished
\* operations left behind, with some first part of the operation the crash
\* interrupted.  No vote, entry or truncation that was answered with Ok is
\* forgotten, although memory is changed before the disk and an operation
\* writes several records.
RecoversWhatWasPromised ==
  [][readPos' # readPos =>
       \E k \in 0..Len(op.records) :
         inner' = FoldLeft(Replayed, promised, SubSeq(op.records, 1, k))]_storageVars

\* The log of a running node has no holes between the last purged entry and
\* its last one, which get_log_state and openraft's log reader rely on.
LogHasNoHoles ==
  node = "up" => DOMAIN inner.log = inner.last_purged + 1..LastIndex(inner)

\* The state machine has only ever applied what has committed, in order, and
\* after a restart it is rebuilt to the same.
AppliedIsChosen == IsPrefix(sm, chosen)

-----------------------------------------------------------------------------
\* octopii/README.md: "Durable Persistence - Crash-resistant Write-Ahead Log":
\* a node that crashed starts again.
NodeStartsAgain == node # "failed"
=============================================================================
