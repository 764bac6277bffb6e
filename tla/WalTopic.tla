------------------------------ MODULE WalTopic ------------------------------
(***************************************************************************)
(* One topic of the Walrus engine (src/wal/runtime): Writer::write and     *)
(* batch_write, the reader chain, read_next with its cursor and its        *)
(* persisted index, the entry count, file reclamation, and a restart with  *)
(* startup_chore.                                                          *)
(* The consistency mode is StrictlyAtOnce, the default.                    *)
(*                                                                         *)
(* Every entry takes one slot of a block, so that an offset counts slots;  *)
(* entries are numbered in the order in which calls append them, and a     *)
(* slot holds Blank until its header is written.  A block handed out by    *)
(* the allocator has a place on disk and an id: recovery numbers the       *)
(* blocks it finds anew.  Methods are cut where they hold no lock.         *)
(***************************************************************************)
EXTENDS Integers, FiniteSets, SequencesExt

CONSTANTS Slots,          \* entries per block
          BlocksPerFile,
          Reader,         \* the threads that call read_next
          MaxEntries, MaxBatch, MaxFailures, MaxRestarts

ASSUME TopicAssumption ==
  /\ {Slots, BlocksPerFile, MaxEntries, MaxBatch} \subseteq Nat \ {0}
  /\ {MaxFailures, MaxRestarts} \subseteq Nat

VARIABLES disk,      \* the blocks handed out, in the order of their files
          gone,      \* the files that were deleted
          passed,    \* FileState::checkpoint_block_ctr of each file
          nextId,    \* BlockAllocator: the next id
          file,      \* BlockAllocator: the file of the next block
          oldest,    \* the first file this process allocated blocks in
          active,    \* Writer: current_block and current_offset
          batch,     \* the batch_write that holds the writer's locks
          info,      \* ColReaderInfo
          index,     \* the persisted read offset
          call,      \* the read_next each thread is in
          acked,     \* the entries whose append returned Ok, in order
          delivered, \* the entries read_next returned for good, in order
          entries,   \* how many entries calls have tried to append
          count,     \* topic_entry_counts of the topic
          uncounted, \* for each append that has not counted its entries yet, how many
          failures,
          restarts   \* how far the reader was at each restart so far

writerVars  == <<active, batch, acked, entries, failures>>
countVars   == <<count, uncounted>>
storageVars == <<disk, gone, nextId, file, oldest>>
topicVars   == <<storageVars, passed, writerVars, countVars, info, index, call,
                 delivered, restarts>>

-----------------------------------------------------------------------------
Blank   == 0
Entry   == 1..MaxEntries
Offset  == 0..Slots
Places  == 0..(MaxEntries + MaxRestarts + MaxFailures * MaxBatch + 1)  \* 0 is none
File    == 1..(MaxEntries + MaxRestarts + MaxFailures * MaxBatch + 1)
Block   == [at : Places, id : Places]

NoBlock  == [at |-> 0, id |-> 0]
NoBatch  == [on |-> FALSE, plan |-> <<>>, todo |-> {}, off |-> 0]
NoIndex  == [kind |-> "none", pos |-> 0, off |-> 0]
NoCall   == [pc |-> "idle", checkpoint |-> FALSE, tail |-> 0, tailOff |-> 0,
             block |-> NoBlock, off |-> 0, entry |-> Blank, save |-> NoIndex]
FreshInfo == [chain |-> <<>>, idx |-> 0, off |-> 0, tail |-> 0, tailOff |-> 0,
              hydrated |-> FALSE]

\* The type of the state.
TopicTypeOK ==
  /\ disk \in Seq([file : Nat, cells : [1..Slots -> Entry \cup {Blank}]])
  /\ gone \subseteq File
  /\ passed \in [File -> Nat]
  /\ active \in [block : Block, off : Offset]
  /\ active.block.at \in DOMAIN disk \cup {0}
  /\ info.chain \in Seq([block : Block, used : Offset])
  /\ info.idx \in 0..Len(info.chain)
  /\ \A i \in DOMAIN info.chain : info.chain[i].block.at \in DOMAIN disk
  /\ index \in [kind : {"none", "chain", "tail"}, pos : Nat, off : Offset]
  /\ DOMAIN call = Reader
  /\ \A r \in Reader :
       call[r].pc \in {"idle", "loop", "snapshot", "rebase", "tail", "save"}
  /\ acked \in Seq(Entry)
  /\ delivered \in Seq(Entry)
  /\ entries \in 0..MaxEntries /\ count \in Nat /\ uncounted \in Seq(Entry)

TopicInit ==
  /\ disk = <<>> /\ gone = {} /\ passed = [f \in File |-> 0]
  /\ nextId = 1 /\ file = 1 /\ oldest = 1
  /\ active = [block |-> NoBlock, off |-> 0]
  /\ batch = NoBatch
  /\ info = FreshInfo
  /\ index = NoIndex
  /\ call = [r \in Reader |-> NoCall]
  /\ acked = <<>> /\ delivered = <<>>
  /\ entries = 0 /\ failures = 0 /\ restarts = <<>>
  /\ count = 0 /\ uncounted = <<>>

-----------------------------------------------------------------------------
(* The allocator and the reader chain.                                     *)

\* alloc_block and get_next_available_block, n blocks in a row.
FileAfter(n) ==
  LET used == Cardinality({p \in DOMAIN disk : disk[p].file = file})
  IN  file + (used + n - 1) \div BlocksPerFile

Allocate(n) ==
  /\ disk' = disk \o [i \in 1..n |-> [file |-> FileAfter(i),
                                      cells |-> [s \in 1..Slots |-> Blank]]]
  /\ nextId' = nextId + n
  /\ file' = IF n = 0 THEN file ELSE FileAfter(n)
  /\ UNCHANGED <<gone, oldest>>

\* The n-th block of an allocation.
NewBlock(n) == [at |-> Len(disk) + n, id |-> nextId + n - 1]

\* Faulty: the progress made in the active block is not carried over.
BadSealed(ri, block, used) ==
  [ri EXCEPT !.chain = Append(@, [block |-> block, used |-> used])]

\* append_block_to_chain: a reader that was reading the block as the active
\* one goes on in the sealed copy.
Sealed(ri, block, used) ==
  LET pushed == [ri EXCEPT !.chain = Append(@, [block |-> block, used |-> used])]
  IN  IF ri.tail = block.id
      THEN [pushed EXCEPT !.idx = Len(ri.chain),
                          !.off = IF ri.tailOff < used THEN ri.tailOff ELSE used]
      ELSE pushed

\* Full blocks appended to the chain, the active one and n - 1 new ones after it.
SealedRun(ri, n) ==
  FoldLeft(LAMBDA acc, i : Sealed(acc, IF i = 1 THEN active.block ELSE NewBlock(i - 1),
                                  Slots),
           ri, [i \in 1..n |-> i])

-----------------------------------------------------------------------------
(* Writing.                                                                *)

\* The writer's locks are free and is_batch_writing is not set; otherwise the
\* call waits or fails with WouldBlock, and changes nothing.
WriterFree == ~batch.on

\* get_or_create_writer, in the first append of this process.  An append that
\* is then refused (a batch over the limits) has no other effect.
CreateWriter ==
  /\ WriterFree
  /\ active.block = NoBlock
  /\ Allocate(1)
  /\ active' = [block |-> NewBlock(1), off |-> 0]
  /\ UNCHANGED <<countVars, passed, batch, acked, entries, failures, info, index, call,
                 delivered, restarts>>

HasWriter == active.block # NoBlock

\* Writer::write.  The block is sealed when the entry does not fit.
Write ==
  LET e    == entries + 1
      full == active.off = Slots
      at   == IF full THEN NewBlock(1) ELSE active.block
      off  == IF full THEN 1 ELSE active.off + 1
      grown == IF full
               THEN Append(disk, [file |-> FileAfter(1),
                                  cells |-> [s \in 1..Slots |-> Blank]])
               ELSE disk
  IN  /\ WriterFree /\ HasWriter /\ e \in Entry
      /\ disk' = [grown EXCEPT ![at.at].cells[off] = e]
      /\ nextId' = IF full THEN nextId + 1 ELSE nextId
      /\ file' = IF full THEN FileAfter(1) ELSE file
      /\ active' = [block |-> at, off |-> off]
      /\ info' = IF full THEN Sealed(info, active.block, active.off) ELSE info
      /\ entries' = e
      /\ acked' = Append(acked, e)
      /\ uncounted' = Append(uncounted, 1)
      /\ UNCHANGED <<count, gone, oldest, passed, batch, failures, index, call,
                     delivered, restarts>>

\* The same for an entry of more than MAX_ALLOC bytes: the block is sealed
\* before alloc_block refuses, and stays the current one.
WriteTooLarge ==
  /\ WriterFree /\ HasWriter
  /\ failures < MaxFailures
  /\ failures' = failures + 1
  /\ info' = Sealed(info, active.block, active.off)
  /\ UNCHANGED <<countVars, storageVars, passed, active, batch, acked, entries, index, call,
                 delivered, restarts>>

\* Where the planning of batch_write puts the i-th entry of a batch.
Rotations(i) == (active.off + i - 1) \div Slots
BlockOf(i) == IF Rotations(i) = 0 THEN active.block ELSE NewBlock(Rotations(i))
SlotOf(i)  == ((active.off + i - 1) % Slots) + 1

\* batch_write up to the end of the planning: every block that the batch fills
\* is sealed and in the reader chain before any of its data is written.
BatchPlan(n) ==
  /\ WriterFree /\ HasWriter /\ entries + n \in Entry
  /\ Allocate(Rotations(n))
  /\ active' = [active EXCEPT !.block = BlockOf(n)]
  /\ info' = SealedRun(info, Rotations(n))
  /\ batch' = [on   |-> TRUE,
               plan |-> [i \in 1..n |-> [at |-> BlockOf(i).at, slot |-> SlotOf(i),
                                         entry |-> entries + i]],
               todo |-> 1..n,
               off  |-> SlotOf(n)]
  /\ entries' = entries + n
  /\ UNCHANGED <<countVars, passed, acked, failures, index, call, delivered, restarts>>

\* The same for a batch that goes on with an entry of more than MAX_ALLOC
\* bytes: the last planned block is sealed too, and alloc_block refuses.
BatchTooLarge(n) ==
  /\ WriterFree /\ HasWriter
  /\ failures < MaxFailures
  /\ failures' = failures + 1
  /\ Allocate(Rotations(n))
  /\ active' = [active EXCEPT !.block = BlockOf(n)]
  /\ info' = Sealed(SealedRun(info, Rotations(n)), BlockOf(n), SlotOf(n))
  /\ UNCHANGED <<countVars, passed, batch, acked, entries, index, call, delivered, restarts>>

\* The writes are submitted together and complete in any order.
BatchWriteOne(i) ==
  LET p == batch.plan[i]
  IN  /\ i \in batch.todo
      /\ disk' = [disk EXCEPT ![p.at].cells[p.slot] = p.entry]
      /\ batch' = [batch EXCEPT !.todo = @ \ {i}]
      /\ UNCHANGED <<countVars, gone, nextId, file, oldest, passed, active, acked, entries,
                     failures, info, index, call, delivered, restarts>>

\* All are written: the writer's offset moves over the batch.
BatchDone ==
  /\ batch.on /\ batch.todo = {}
  /\ active' = [active EXCEPT !.off = batch.off]
  /\ acked' = acked \o [i \in DOMAIN batch.plan |-> batch.plan[i].entry]
  /\ uncounted' = Append(uncounted, Len(batch.plan))
  /\ batch' = NoBatch
  /\ UNCHANGED <<count, storageVars, passed, entries, failures, info, index, call,
                 delivered, restarts>>

\* append_for_topic and batch_append_for_topic count what was written when the
\* writer's locks are free again.
CountAppended(i) ==
  /\ count' = count + uncounted[i]
  /\ uncounted' = RemoveAt(uncounted, i)
  /\ UNCHANGED <<storageVars, passed, writerVars, info, index, call, delivered,
                 restarts>>

\* The slots the write plan of the current batch covers.
Planned(p, s) ==
  \E i \in DOMAIN batch.plan : batch.plan[i].at = p /\ batch.plan[i].slot = s

\* Faulty: the header before the batch is zeroed as well.
BadBatchFails ==
  /\ batch.on
  /\ failures < MaxFailures
  /\ failures' = failures + 1
  /\ disk' = [p \in DOMAIN disk |->
                [disk[p] EXCEPT !.cells = [s \in 1..Slots |->
                   IF Planned(p, s) \/ Planned(p, s + 1) THEN Blank
                   ELSE disk[p].cells[s]]]]
  /\ batch' = NoBatch
  /\ UNCHANGED <<countVars, gone, nextId, file, oldest, passed, active, acked, entries,
                 info, index, call, delivered, restarts>>

\* A write failed: the headers of the batch are zeroed and the offset stays
\* what it was before, in whatever block is the current one by now.
BatchFails ==
  /\ batch.on
  /\ failures < MaxFailures
  /\ failures' = failures + 1
  /\ disk' = [p \in DOMAIN disk |->
                [disk[p] EXCEPT !.cells = [s \in 1..Slots |->
                   IF Planned(p, s) THEN Blank ELSE disk[p].cells[s]]]]
  /\ batch' = NoBatch
  /\ UNCHANGED <<countVars, gone, nextId, file, oldest, passed, active, acked, entries,
                 info, index, call, delivered, restarts>>

-----------------------------------------------------------------------------
(* read_next.                                                              *)

InChain(ri, id) ==
  {i \in DOMAIN ri.chain : ri.chain[i].block.id = id}

Lesser(a, b) == IF a < b THEN a ELSE b

\* The first read of a process takes its position from the index.  A tail
\* position is folded into the chain block with its id, if there is one.
Hydrated(ri) ==
  LET len == Len(ri.chain)
      at(i, off) == [ri EXCEPT !.hydrated = TRUE, !.idx = i,
                       !.off = IF i < len THEN Lesser(off, ri.chain[i + 1].used)
                               ELSE 0]
  IN  CASE ri.hydrated -> ri
        [] ~ri.hydrated /\ index.kind = "none" -> [ri EXCEPT !.hydrated = TRUE]
        [] ~ri.hydrated /\ index.kind = "chain" -> at(Lesser(index.pos, len), index.off)
        [] ~ri.hydrated /\ index.kind = "tail" ->
             IF InChain(ri, index.pos) # {}
             THEN at(Min(InChain(ri, index.pos)) - 1, index.off)
             ELSE at(0, 0)

ReadStart(r, checkpoint) ==
  /\ call[r].pc = "idle"
  /\ info' = Hydrated(info)
  /\ call' = [call EXCEPT ![r] = [NoCall EXCEPT !.pc = "loop",
                                               !.checkpoint = checkpoint]]
  /\ UNCHANGED <<countVars, storageVars, passed, writerVars, index, delivered, restarts>>

Return(r) == call' = [call EXCEPT ![r] = NoCall]

\* One iteration of the loop under the column lock: move past a block that is
\* used up, read from the chain, or look at the tail.
ReadLoop(r) ==
  LET cur  == info.chain[info.idx + 1]
      cell == disk[cur.block.at].cells[info.off + 1]
  IN  /\ call[r].pc = "loop"
      /\ \/ /\ info.idx < Len(info.chain)
            /\ info.off >= cur.used
            /\ passed' = [passed EXCEPT ![disk[cur.block.at].file] = @ + 1]
            /\ info' = [info EXCEPT !.idx = @ + 1, !.off = 0]
            /\ UNCHANGED call
         \/ /\ info.idx < Len(info.chain)
            /\ info.off < cur.used
            /\ cell # Blank /\ call[r].checkpoint
            /\ info' = [info EXCEPT !.off = @ + 1]
            /\ call' = [call EXCEPT ![r].pc = "save", ![r].entry = cell,
                          ![r].save = [kind |-> "chain", pos |-> info.idx,
                                       off |-> info.off + 1]]
            /\ UNCHANGED passed
         \/ /\ info.idx < Len(info.chain)
            /\ info.off < cur.used
            /\ cell = Blank \/ ~call[r].checkpoint
            /\ Return(r)
            /\ UNCHANGED <<passed, info>>
         \/ /\ info.idx >= Len(info.chain)
            /\ call' = [call EXCEPT ![r].pc = "snapshot", ![r].tail = info.tail,
                                    ![r].tailOff = info.tailOff]
            /\ UNCHANGED <<passed, info>>
      /\ UNCHANGED <<countVars, storageVars, writerVars, index, delivered, restarts>>

\* snapshot_block waits for the writer's locks; the column lock is not held.
ReadSnapshot(r) ==
  /\ call[r].pc = "snapshot"
  /\ WriterFree
  /\ IF HasWriter
     THEN call' = [call EXCEPT ![r].pc = "rebase", ![r].block = active.block,
                               ![r].off = active.off]
     ELSE Return(r)
  /\ UNCHANGED <<countVars, storageVars, passed, writerVars, info, index,
                 delivered, restarts>>

\* The start of the active block is persisted as the position, whatever has
\* been read of it; then the entry after the known tail offset is looked up.
ReadRebase(r) ==
  LET c    == call[r]
      off  == IF c.tail = c.block.id THEN c.tailOff ELSE 0
      cell == disk[c.block.at].cells[off + 1]
  IN  /\ c.pc = "rebase"
      /\ index' = IF c.checkpoint
                  THEN [kind |-> "tail", pos |-> c.block.id, off |-> 0] ELSE index
      /\ IF off < c.off /\ cell # Blank /\ c.checkpoint
         THEN call' = [call EXCEPT ![r].pc = "tail", ![r].entry = cell,
                                   ![r].tailOff = off + 1]
         ELSE Return(r)
      /\ UNCHANGED <<countVars, storageVars, passed, writerVars, info, delivered, restarts>>

\* The progress in the active block is recorded under the column lock.
ReadTail(r) ==
  LET c == call[r]
  IN  /\ c.pc = "tail"
      /\ info' = [info EXCEPT !.tail = c.block.id, !.tailOff = c.tailOff]
      /\ call' = [call EXCEPT ![r].pc = "save",
                    ![r].save = [kind |-> "tail", pos |-> c.block.id,
                                 off |-> c.tailOff]]
      /\ UNCHANGED <<countVars, storageVars, passed, writerVars, index, delivered, restarts>>

\* The position is persisted after the column lock was released, and the entry
\* is returned.
ReadSave(r) ==
  /\ call[r].pc = "save"
  /\ index' = call[r].save
  /\ delivered' = Append(delivered, call[r].entry)
  /\ count' = IF count > 0 THEN count - 1 ELSE 0
  /\ Return(r)
  /\ UNCHANGED <<uncounted, storageVars, passed, writerVars, info, restarts>>

-----------------------------------------------------------------------------
(* The view of a caller.                                                   *)

Ranked(S) == [i \in 1..Cardinality(S) |->
                CHOOSE p \in S : Cardinality({q \in S : q <= p}) = i]

\* The entries a block of the chain or the active block exposes to readers.
Readable(p, used) ==
  LET shown == {s \in 1..used : ~Planned(p, s)}
  IN  [i \in 1..Cardinality(shown) |-> disk[p].cells[Ranked(shown)[i]]]

\* The first n blocks of the chain.
ChainContent(n) ==
  FoldLeft(LAMBDA acc, b : acc \o Readable(b.block.at, b.used), <<>>,
           SubSeq(info.chain, 1, n))

\* While a batch that went on to another block is being written, the offset
\* still belongs to the block before.
Content ==
  ChainContent(Len(info.chain))
    \o IF HasWriter /\ ~(batch.on /\ batch.off <= active.off)
       THEN Readable(active.block.at, active.off)
       ELSE <<>>

\* How many entries the reader is past; before the first read of a process,
\* how many it was past when the last one ended.
Past ==
  IF info.hydrated
  THEN Len(ChainContent(info.idx))
         + IF info.idx < Len(info.chain) THEN info.off
           ELSE IF HasWriter /\ info.tail = active.block.id THEN info.tailOff ELSE 0
  ELSE IF restarts = <<>> THEN 0 ELSE restarts[Len(restarts)]

-----------------------------------------------------------------------------
(* Reclamation and restart.                                                *)

BlocksOf(f) == {p \in DOMAIN disk : disk[p].file = f}

\* Faulty: one block the reader is past is enough.
BadDeleteFile(f) ==
  /\ f \in oldest..(file - 1) \ gone
  /\ passed[f] > 0
  /\ gone' = gone \cup {f}
  /\ UNCHANGED <<countVars, disk, nextId, file, oldest, passed, writerVars, info, index,
                 call, delivered, restarts>>

\* flush_check and the background thread, for a topic that has its files to
\* itself: a file this process filled, once as many blocks were passed as it
\* has.  The block being written is in the newest file; the chain keeps its
\* mapping of a deleted one.
DeleteFile(f) ==
  /\ f \in oldest..(file - 1) \ gone
  /\ passed[f] >= Cardinality(BlocksOf(f))
  /\ gone' = gone \cup {f}
  /\ UNCHANGED <<countVars, disk, nextId, file, oldest, passed, writerVars, info, index,
                 call, delivered, restarts>>

Used(p) == Cardinality({s \in 1..Slots : \A t \in 1..s : disk[p].cells[t] # Blank})

\* Faulty: a block that has room left is not recovered.
BadRecovered ==
  {p \in DOMAIN disk : disk[p].file \notin gone /\ Used(p) = Slots}

\* startup_chore: of every file that is left, the blocks up to the first one
\* that starts with zeroes.
Recovered ==
  {p \in DOMAIN disk :
     /\ disk[p].file \notin gone
     /\ \A q \in 1..p : disk[q].file = disk[p].file => Used(q) > 0}

\* rebuild_topic_entry_counts_after_recovery: the entries recovered that are
\* not before the persisted position.
EntriesLeft(chain) ==
  LET start == Hydrated([FreshInfo EXCEPT !.chain = chain])
      sum(n) == FoldLeft(LAMBDA acc, b : acc + b.used, 0, SubSeq(chain, 1, n))
  IN  sum(Len(chain)) - (sum(start.idx) + start.off)

\* The process dies at any point and a new one opens the same directory.  Its
\* allocator starts a new file.
Restart ==
  LET found == Ranked(Recovered)
      chain == [i \in DOMAIN found |->
                  [block |-> [at |-> found[i], id |-> i], used |-> Used(found[i])]]
  IN  /\ Len(restarts) < MaxRestarts
      /\ restarts' = Append(restarts, Past)
      /\ nextId' = Len(found) + 1
      /\ file' = file + 1 /\ oldest' = file + 1
      /\ active' = [block |-> NoBlock, off |-> 0]
      /\ batch' = NoBatch
      /\ info' = [FreshInfo EXCEPT !.chain = chain]
      /\ count' = EntriesLeft(chain) /\ uncounted' = <<>>
      /\ call' = [r \in Reader |-> NoCall]
      /\ passed' = [f \in File |-> 0]
      /\ UNCHANGED <<disk, gone, index, acked, delivered, entries, failures>>

-----------------------------------------------------------------------------
AppendNext ==
  \/ CreateWriter
  \/ Write
  \/ \E n \in 1..MaxBatch : BatchPlan(n)
  \/ \E i \in batch.todo : BatchWriteOne(i)
  \/ BatchDone

CountNext == \E i \in DOMAIN uncounted : CountAppended(i)

FailureNext ==
  WriteTooLarge \/ BatchFails \/ \E n \in 1..MaxBatch : BatchTooLarge(n)

ReadStep(r) ==
  ReadLoop(r) \/ ReadSnapshot(r) \/ ReadRebase(r) \/ ReadTail(r) \/ ReadSave(r)

ReaderNext ==
  \E r \in Reader :
    (\E checkpoint \in BOOLEAN : ReadStart(r, checkpoint)) \/ ReadStep(r)

Quiet == \A r \in Reader : call[r].pc = "idle"

Counted == uncounted = <<>>

\* Calls of all threads interleave and files are reclaimed.
ThreadsNext ==
  \/ AppendNext \/ CountNext \/ ReaderNext
  \/ \E f \in File : DeleteFile(f)

ThreadsSpec == TopicInit /\ [][ThreadsNext]_topicVars

\* Appends fail as well, and the process restarts.
TopicNext == ThreadsNext \/ FailureNext \/ Restart

TopicSpec == TopicInit /\ [][TopicNext]_topicVars

\* A caller that makes one call at a time, and a process that restarts at any
\* point of a call.
SerialNext ==
  \/ Quiet /\ Counted /\ AppendNext
  \/ CountNext
  \/ WriterFree /\ Counted /\ ReaderNext
  \/ Restart

\* The threads that read are interchangeable.
ReaderSymmetry == Permutations(Reader)

-----------------------------------------------------------------------------
(* Properties.                                                             *)

\* Every entry the reader has not taken is in the entry count of the topic,
\* which is kept in memory and rebuilt from the blocks and the index.
UnreadIsCounted ==
  (Quiet /\ WriterFree /\ Counted /\ info.hydrated) => count >= Len(Content) - Past

\* No failed append and no rollback touches an entry that was acknowledged:
\* it stays in one slot on disk, over failures, rotations and restarts.
AckedStored ==
  \A i \in DOMAIN acked :
    Cardinality({c \in (DOMAIN disk) \X (1..Slots) :
                   disk[c[1]].cells[c[2]] = acked[i]}) = 1

\* A file is reclaimed only when every entry in it was read, whatever
\* other threads were reading and writing when its blocks were passed.
ReclaimSafe ==
  \A p \in DOMAIN disk :
    disk[p].file \in gone =>
      \A s \in 1..Slots :
        \/ disk[p].cells[s] = Blank
        \/ \E i \in DOMAIN delivered : delivered[i] = disk[p].cells[s]
        \/ \E r \in Reader : call[r].entry = disk[p].cells[s]

-----------------------------------------------------------------------------
(* What the documentation says of a topic.                                 *)

\* docs/CUSTOM_STATE_MACHINES.md of octopii, on StrictlyAtOnce: "Exactly-once,
\* no duplicate reads after crash"; docs/architecture.md: "StrictlyAtOnce mode
\* holds the reader lock through IO to guarantee single-consumption semantics".
ExactlyOnce ==
  \A i, j \in DOMAIN delivered : delivered[i] = delivered[j] => i = j

\* docs/architecture.md: the index is consulted "to ensure readers resume
\* exactly where they left off", so never past an entry nobody has read.
NothingSkipped ==
  info.hydrated => \A i \in 1..Past :
    \/ \E d \in DOMAIN delivered : delivered[d] = Content[i]
    \/ \E r \in Reader : call[r].entry = Content[i]

\* walrus.rs (tests): "Restart should rebuild counts from WAL + persisted read
\* offsets": the count is the number of entries read_next will still return.
EntryCountExact ==
  (Quiet /\ WriterFree /\ Counted /\ info.hydrated) => count = Len(Content) - Past

\* docs/batch_writer.md: "No partial batch will ever be visible".
NoPartialBatch ==
  \A d \in DOMAIN delivered, i \in DOMAIN batch.plan :
    delivered[d] # batch.plan[i].entry

\* docs/batch_writer.md: "Rollback on failure, restore exact pre-batch state",
\* so that no zeroed header is left among the entries readers go through.
RollbackLeavesNoHole ==
  WriterFree => \A i \in DOMAIN Content : Content[i] # Blank
=============================================================================
