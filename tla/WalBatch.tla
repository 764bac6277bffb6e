------------------------------ MODULE WalBatch ------------------------------
(***************************************************************************)
(* batch_read_for_topic of src/wal/runtime/walrus_read.rs on one topic:    *)
(* readers that share the topic's position, readers that bring an offset   *)
(* of their own, one writer, and restarts.  WalTopic models read_next and  *)
(* the rest of the engine.                                                 *)
(*                                                                         *)
(* A batch read looks at the writer's active block first, takes the column *)
(* lock, plans ranges of the sealed blocks and of the active one, parses   *)
(* them, moves the position, releases the lock, and only then writes the   *)
(* position to the index and lowers the topic's entry count.  Sizes are    *)
(* counted in slots.  Entries carry their number in the order of appends.  *)
(***************************************************************************)
EXTENDS Integers, FiniteSets, SequencesExt

CONSTANTS Readers,
          Meta,            \* PREFIX_META_SIZE
          Small,           \* entries below this size count as small (128 bytes)
          BlockCap,        \* the size of a block
          MaxBatchEntries,
          BatchLoads       \* what a run does: readers, sizes, requests, strict, entries, reads, restarts

ASSUME BatchAssumption == {Meta, Small, BlockCap, MaxBatchEntries} \subseteq Nat \ {0}

VARIABLES chain,   \* ColReaderInfo::chain
          active,  \* the writer's block, with id 0 when there is no writer
          col_info, \* the rest of ColReaderInfo
          index,   \* the persisted read offset
          reads,   \* each reader: its snapshot, its request, the position it is to save
          marked,  \* the blocks set_checkpointed_true was called for
          count,   \* the topic's entry count
          written, \* how many entries were appended
          done, restarts, workload,
          got,     \* the entries handed out to readers that move the position
          batch,   \* the latest batch, for the properties
          flags    \* the special cases that have occurred

batchVars == <<chain, active, col_info, index, reads, marked, count, written, done, restarts,
               workload, got, batch, flags>>

-----------------------------------------------------------------------------
NoBlock == [id |-> 0, ents |-> <<>>]
NoSave  == [kind |-> "none", pos |-> 0, off |-> 0]
NoRead  == [pc |-> "idle", snap |-> NoBlock, req |-> [max |-> 0, cp |-> FALSE, at |-> -1],
            save |-> NoSave, parsed |-> 0]
NoBatch == [ents |-> <<>>, total |-> 0, max |-> 1, trim |-> 0, at |-> -1, missed |-> 0,
            inside |-> FALSE]
FreshInfo == [idx |-> 0, off |-> 0, tail |-> 0, tailOff |-> 0, hydrated |-> FALSE]

Larger(a, b)  == IF a > b THEN a ELSE b
Smaller(a, b) == IF a < b THEN a ELSE b

SizeOf(ents) == FoldLeft(LAMBDA sum, e : sum + Meta + e.size, 0, ents)
Used(b) == SizeOf(b.ents)
Upto(b, k) == SizeOf(SubSeq(b.ents, 1, k))
Blocks(ch, b) == IF b.id = 0 THEN ch ELSE Append(ch, b)
Numbers(blocks) == FlattenSeq([i \in DOMAIN blocks |-> [k \in DOMAIN blocks[i].ents |->
                                                          blocks[i].ents[k].n]])

\* How many entries come before a byte position of a block.
EntriesBefore(b, off) == Cardinality({k \in DOMAIN b.ents : Upto(b, k) <= off})

\* How many entries of the topic come before a position.
EntriesUpto(i, off) ==
  Len(Numbers(SubSeq(chain, 1, i)))
    + (IF i < Len(chain) THEN EntriesBefore(chain[i + 1], off) ELSE 0)

IndexOf(id) == {i \in DOMAIN chain : chain[i].id = id}

\* The position of the index: a tail position counts from the block it names,
\* which may have been sealed since.
SavedEntries(save) ==
  CASE save.kind = "none"  -> 0
    [] save.kind = "chain" -> EntriesUpto(save.pos, save.off)
    [] save.kind = "tail" /\ IndexOf(save.pos) # {} ->
         EntriesUpto((CHOOSE i \in IndexOf(save.pos) : TRUE) - 1, save.off)
    [] save.kind = "tail" /\ IndexOf(save.pos) = {} ->
         Len(Numbers(chain)) + EntriesBefore(active, IF save.pos = active.id THEN save.off ELSE 0)

\* The type of the state.
BatchTypeOK ==
  /\ \A i \in DOMAIN chain : Used(chain[i]) \in 1..BlockCap
  /\ col_info.idx \in 0..Len(chain) /\ col_info.hydrated \in BOOLEAN
  /\ index.kind \in {"none", "chain", "tail"}
  /\ \A r \in Readers : reads[r].pc \in {"idle", "snapped", "save"}
  /\ count \in 0..workload.entries /\ written \in 0..workload.entries
  /\ flags \subseteq {"raced", "cut", "crossed", "moved"}

-----------------------------------------------------------------------------
(* Where a read starts.                                                    *)

\* The first batch of a process takes the position from the index.
HydratedAt ==
  IF col_info.hydrated THEN col_info
  ELSE CASE index.kind = "none" -> [col_info EXCEPT !.hydrated = TRUE]
         [] index.kind = "tail" ->
              [col_info EXCEPT !.tail = index.pos, !.tailOff = index.off, !.idx = Len(chain),
                           !.off = 0, !.hydrated = TRUE]
         [] index.kind = "chain" ->
              [col_info EXCEPT !.idx = Smaller(index.pos, Len(chain)), !.hydrated = TRUE,
                           !.off = IF index.pos < Len(chain)
                                   THEN Smaller(index.off, Used(chain[index.pos + 1])) ELSE 0]

\* A persisted tail whose block is sealed by now becomes a position in the
\* chain.
Folded(ri) ==
  IF col_info.hydrated \/ index.kind # "tail" \/ IndexOf(ri.tail) = {} THEN ri
  ELSE LET i == CHOOSE j \in IndexOf(ri.tail) : TRUE
       IN  [ri EXCEPT !.idx = i - 1, !.off = Smaller(ri.tailOff, Used(chain[i]))]

\* The scan for the entry that holds a byte of a block.  A scan for byte 0
\* steps over the small entries.
Holds(b, rem) ==
  {k \in DOMAIN b.ents : Upto(b, k) > rem /\ (rem = 0 => b.ents[k].size >= Small)}

FirstOf(b, rem) == CHOOSE k \in Holds(b, rem) : \A j \in Holds(b, rem) : k <= j

\* What of the entry's payload comes before the byte.
Trim(b, rem) == Larger(0, rem - (Upto(b, FirstOf(b, rem) - 1) + Meta))

\* The sealed blocks that end at or before an offset of the topic.
BlocksBefore(at) == {i \in DOMAIN chain : SizeOf(FlattenSeq([j \in 1..i |-> chain[j].ents])) <= at}

\* The start of a read with an offset of its own.
StatelessStart(at) ==
  LET i   == Cardinality(BlocksBefore(at))
      rem == at - SizeOf(FlattenSeq([j \in 1..i |-> chain[j].ents]))
  IN  IF i = Len(chain)
      THEN [idx |-> i, off |-> 0, tailOff |-> rem, trim |-> 0, hint |-> 0]
      ELSE LET b == chain[i + 1]
           IN  IF Holds(b, rem) = {}
               THEN [idx |-> i, off |-> Used(b), tailOff |-> rem, trim |-> 0, hint |-> 0]
               ELSE [idx |-> i, off |-> Upto(b, FirstOf(b, rem) - 1), tailOff |-> rem,
                     trim |-> Trim(b, rem), hint |-> Upto(b, FirstOf(b, rem))]

-----------------------------------------------------------------------------
(* The plan.                                                               *)

From(s, i) == IF i = s.idx + 1 THEN s.off ELSE 0
Left(s, i) == IF i <= s.idx THEN 0 ELSE Larger(0, Used(chain[i]) - From(s, i))
Before(s, i) == FoldLeft(LAMBDA sum, j : sum + Left(s, j), 0, [j \in 1..(i - 1) |-> j])

\* The peek: what the first entry needs, and the second one when the first is
\* small.
Required(b, off) ==
  LET k == EntriesBefore(b, off) + 1
      n == IF b.ents[k].size < Small /\ k < Len(b.ents) THEN k + 1 ELSE k
  IN  Upto(b, n) - off

Want(s, i, max) ==
  CASE Before(s, i) > 0 -> max - Before(s, i)
    [] Before(s, i) = 0 /\ s.hint > From(s, i) /\ i = s.idx + 1 ->
         Larger(max, s.hint - From(s, i))
    [] OTHER -> Larger(max, Required(chain[i], From(s, i)))

Visited(s, max) == {i \in DOMAIN chain : i > s.idx /\ Before(s, i) < max}

\* The blocks of the chain that were read to their end: each is reported as
\* checkpointed on the way.
Passed(s, max) == {chain[i].id : i \in {j \in Visited(s, max) : Left(s, j) = 0}}

ChainPlan(s, max) ==
  LET some == SetToSortSeq({i \in Visited(s, max) : Left(s, i) > 0}, <)
  IN  [n \in DOMAIN some |->
         [blk |-> chain[some[n]], from |-> From(s, some[n]), idx |-> some[n] - 1, tail |-> FALSE,
          to |-> Smaller(Used(chain[some[n]]), From(s, some[n]) + Want(s, some[n], max))]]

\* The active block, as it was when the read began, is planned to its end
\* once the chain is through.
TailReached(s, max) == Max(Visited(s, max) \cup {s.idx}) >= Len(chain)

TailPlan(s, max, snap, from) ==
  IF TailReached(s, max) /\ snap.id # 0 /\ from < Used(snap)
  THEN <<[blk |-> snap, from |-> from, to |-> Used(snap), idx |-> Len(chain), tail |-> TRUE]>>
  ELSE <<>>

\* Faulty: the tail is read from the start of the active block.
BadTailFrom(s, snap) == 0

TailFrom(s, snap) == IF s.tail = snap.id THEN s.tailOff ELSE 0

\* A read with an offset looks for the remainder of its offset in the active
\* block, and falls back to the block's start.
StatelessTailFrom(s, snap) ==
  IF Holds(snap, s.tailOff) = {} THEN 0 ELSE Upto(snap, FirstOf(snap, s.tailOff) - 1)

StatelessTrim(s, max, snap) ==
  IF TailReached(s, max) /\ snap.id # 0 /\ Holds(snap, s.tailOff) # {}
       /\ Trim(snap, s.tailOff) > 0
  THEN Trim(snap, s.tailOff) ELSE s.trim

-----------------------------------------------------------------------------
(* Parsing.                                                                *)

\* The budget counts payload; a batch has at least one entry.
WithinBudget(total, size, n, max) == total + size <= max \/ n = 0

\* The entries of one range, up to the first that is cut off or over the
\* budget.  The ranges after it are parsed all the same.
Parsed(acc, range, max) ==
  LET b == range.blk
      start == EntriesBefore(b, range.from)
      paid(k) == FoldLeft(LAMBDA sum, e : sum + e.size, acc.total, SubSeq(b.ents, start + 1, k))
      fits(k) == /\ Upto(b, k) <= range.to
                 /\ WithinBudget(paid(k - 1), b.ents[k].size, Len(acc.ents) + k - 1 - start, max)
                 /\ Len(acc.ents) + k - start <= MaxBatchEntries
      last == Max({k \in start..Len(b.ents) : \A j \in (start + 1)..k : fits(j)})
  IN  IF last = start THEN acc
      ELSE [ents |-> acc.ents \o SubSeq(b.ents, start + 1, last), total |-> paid(last),
            last |-> [range EXCEPT !.to = Upto(b, last)]]

ParsedAll(plan, max) ==
  FoldLeft(LAMBDA acc, range : Parsed(acc, range, max),
           [ents |-> <<>>, total |-> 0,
            last |-> [blk |-> NoBlock, from |-> 0, to |-> 0, idx |-> 0, tail |-> FALSE]], plan)

-----------------------------------------------------------------------------
(* Committing.                                                             *)

\* update_state: the position after a batch.
Moved(ri, parsed) ==
  IF parsed.last.tail
  THEN [ri EXCEPT !.idx = Len(chain), !.off = 0, !.tail = parsed.last.blk.id,
                  !.tailOff = parsed.last.to]
  ELSE [ri EXCEPT !.idx = parsed.last.idx, !.off = parsed.last.to]

\* PersistTarget.
Target(parsed) ==
  IF parsed.last.tail
  THEN [kind |-> "tail", pos |-> parsed.last.blk.id, off |-> parsed.last.to]
  ELSE [kind |-> "chain", pos |-> parsed.last.idx, off |-> parsed.last.to]

\* A batch read writes the index under StrictlyAtOnce only.
ShouldPersist(cp) == cp /\ workload.strict

\* The number of the entry that holds a byte of the topic.
EntryAt(at) ==
  LET ents == FlattenSeq([i \in DOMAIN Blocks(chain, active) |-> Blocks(chain, active)[i].ents])
  IN  Cardinality({k \in DOMAIN ents : SizeOf(SubSeq(ents, 1, k)) <= at}) + 1

\* The special cases of a batch: the block the reader saw as active was sealed
\* before the reader had the lock; a sealed block was cut off and the tail was
\* read behind it.
Cases(plan, parsed, snap) ==
  (IF snap.id # 0 /\ IndexOf(snap.id) # {} THEN {"raced"} ELSE {})
    \cup (IF parsed.last.tail /\ Len(plan) > 1
                /\ parsed.ents # FlattenSeq([i \in DOMAIN plan |->
                     SubSeq(plan[i].blk.ents, EntriesBefore(plan[i].blk, plan[i].from) + 1,
                            IF plan[i].tail THEN EntriesBefore(plan[i].blk, parsed.last.to)
                            ELSE Len(plan[i].blk.ents))])
          THEN {"cut"} ELSE {})

-----------------------------------------------------------------------------
(* The steps.                                                              *)

\* append_for_topic: a full block is sealed, and a reader that was in it as
\* the tail goes on in the chain.
Append1(size) ==
  LET e == [n |-> written + 1, size |-> size]
      fits == Used(active) + Meta + size <= BlockCap
      open == IF active.id = 0 THEN [NoBlock EXCEPT !.id = Len(chain) + 1] ELSE active
      seal == active.id # 0 /\ ~fits
  IN  /\ written < workload.entries
      /\ written' = written + 1 /\ count' = count + 1
      /\ chain' = IF seal THEN Append(chain, active) ELSE chain
      /\ active' = IF seal THEN [id |-> active.id + 1, ents |-> <<e>>]
                   ELSE [open EXCEPT !.ents = Append(@, e)]
      /\ col_info' = IF seal /\ col_info.tail = active.id
                 THEN [col_info EXCEPT !.idx = Len(chain), !.off = Smaller(col_info.tailOff, Used(active))]
                 ELSE col_info
      /\ UNCHANGED <<index, reads, marked, done, restarts, workload, got, batch, flags>>

\* A read begins with a snapshot of the active block, under the writer's lock
\* and none of the reader's.
Snapshot(r) ==
  /\ r \in workload.readers /\ reads[r].pc = "idle" /\ done < workload.reads
  /\ done' = done + 1 /\ batch' = NoBatch
  /\ \E req \in workload.requests :
       reads' = [reads EXCEPT ![r] = [NoRead EXCEPT !.pc = "snapped", !.snap = active,
                                                    !.req = req]]
  /\ UNCHANGED <<chain, active, col_info, index, marked, count, written, restarts, workload, got,
                 flags>>

\* A batch from the topic's own position, under the column lock.
StatefulBatch(r) ==
  LET req    == reads[r].req
      ri     == Folded(HydratedAt)
      s      == [idx |-> ri.idx, off |-> ri.off, tail |-> ri.tail, tailOff |-> ri.tailOff,
                 hint |-> 0]
      plan   == ChainPlan(s, req.max)
                  \o TailPlan(s, req.max, reads[r].snap, TailFrom(s, reads[r].snap))
      parsed == ParsedAll(plan, req.max)
      some   == parsed.ents # <<>>
  IN  /\ reads[r].pc = "snapped" /\ req.at = -1
      /\ marked' = marked \cup Passed(s, req.max)
      /\ col_info' = IF some /\ req.cp THEN Moved(ri, parsed) ELSE ri
      /\ reads' = [reads EXCEPT ![r] =
                     IF some /\ req.cp
                     THEN [@ EXCEPT !.pc = "save", !.parsed = Len(parsed.ents),
                                    !.save = IF ShouldPersist(req.cp) THEN Target(parsed)
                                             ELSE NoSave]
                     ELSE NoRead]
      /\ got' = IF req.cp THEN got \o [k \in DOMAIN parsed.ents |-> parsed.ents[k].n] ELSE got
      /\ batch' = [NoBatch EXCEPT !.ents = parsed.ents, !.total = parsed.total, !.max = req.max,
                     !.missed = IF some THEN 0
                                ELSE Len(Numbers(Blocks(chain, reads[r].snap))) - Len(got)]
      /\ flags' = flags \cup Cases(plan, parsed, reads[r].snap)
      /\ UNCHANGED <<chain, active, index, count, written, done, restarts, workload>>

\* A batch from an offset.  It has no lock and no position of its own, yet
\* without StrictlyAtOnce a checkpoint moves the topic's position.
StatelessBatch(r) ==
  LET req    == reads[r].req
      snap   == reads[r].snap
      s      == StatelessStart(req.at)
      plan   == ChainPlan(s, req.max) \o TailPlan(s, req.max, snap, StatelessTailFrom(s, snap))
      parsed == ParsedAll(plan, req.max)
      moves  == parsed.ents # <<>> /\ req.cp /\ ~workload.strict
  IN  /\ reads[r].pc = "snapped" /\ req.at # -1
      /\ col_info' = IF moves THEN Moved(col_info, parsed) ELSE col_info
      /\ reads' = [reads EXCEPT ![r] = NoRead]
      /\ batch' = [NoBatch EXCEPT !.ents = parsed.ents, !.total = parsed.total, !.max = req.max,
                     !.at = req.at, !.trim = StatelessTrim(s, req.max, snap),
                     !.inside = /\ s.tailOff > 0 /\ EntryAt(req.at) <= Len(Numbers(Blocks(chain, snap)))
                                /\ plan # <<>> => (Head(plan).tail <=> Last(plan).tail)]
      /\ flags' = flags \cup (IF moves THEN {"moved"} ELSE {})
                        \cup (Cases(plan, parsed, snap) \cap {"raced"})
      /\ UNCHANGED <<chain, active, index, marked, count, written, done, restarts, workload, got>>

\* decrement_topic_entry_count.
Lowered(n) == Larger(0, count - n)

\* After the lock was released: the index is written, the count lowered.
Save(r) ==
  /\ reads[r].pc = "save"
  /\ index' = IF reads[r].save.kind = "none" THEN index ELSE reads[r].save
  /\ count' = Lowered(reads[r].parsed)
  /\ flags' = flags \cup (IF reads[r].save.kind # "none"
                                /\ SavedEntries(reads[r].save) < SavedEntries(index)
                          THEN {"crossed"} ELSE {})
  /\ reads' = [reads EXCEPT ![r] = NoRead]
  /\ UNCHANGED <<chain, active, col_info, marked, written, done, restarts, workload, got, batch>>

\* A crash and the next start: the blocks with entries are found again and
\* form the chain, the writer is created by the next append, the count is
\* what lies behind the index, and the blocks before the index's block are
\* marked (a tail position stands for the whole chain).
BatchRestart ==
  LET found == SelectSeq(Blocks(chain, active), LAMBDA b : b.ents # <<>>)
      ib    == IF index.kind = "tail" THEN Len(found) ELSE Smaller(index.pos, Len(found))
  IN  /\ restarts < workload.restarts
      /\ restarts' = restarts + 1
      /\ chain' = found /\ active' = NoBlock /\ col_info' = FreshInfo
      /\ reads' = [r \in Readers |-> NoRead]
      /\ count' = written - SavedEntries(index)
      /\ marked' = {found[i].id : i \in 1..ib}
      /\ got' = SubSeq(got, 1, Smaller(Len(got), SavedEntries(index)))
      /\ batch' = NoBatch
      /\ UNCHANGED <<index, written, done, workload, flags>>

-----------------------------------------------------------------------------
BatchInit ==
  /\ workload \in BatchLoads
  /\ chain = <<>> /\ active = NoBlock /\ col_info = FreshInfo /\ index = NoSave
  /\ reads = [r \in Readers |-> NoRead]
  /\ marked = {} /\ count = 0 /\ written = 0 /\ done = 0 /\ restarts = 0
  /\ got = <<>> /\ batch = NoBatch /\ flags = {}

BatchNext ==
  \/ \E size \in workload.sizes : Append1(size)
  \/ \E r \in Readers : Snapshot(r) \/ StatefulBatch(r) \/ StatelessBatch(r) \/ Save(r)
  \/ BatchRestart

BatchSpec == BatchInit /\ [][BatchNext]_batchVars

-----------------------------------------------------------------------------
Quiet == \A r \in Readers : reads[r].pc = "idle"

\* Batches hand out the entries of the topic in order, each once and none left
\* out, whoever reads and however blocks are sealed in between, except where
\* the reader's block was sealed under it or a sealed block was cut off by the
\* byte budget (walrus_read.rs:768 and 784).  A crash takes back what was not
\* saved.
BatchesInOrder ==
  flags \cap {"raced", "cut", "moved"} = {} => got = [i \in DOMAIN got |-> i]

\* A batch keeps to its budget of payload bytes unless it is a single entry,
\* and a topic with an entry to read never yields an empty batch, however
\* small the budget is (walrus_read.rs:706 and 1038).
BatchWithinBudget ==
  /\ batch.total <= batch.max \/ Len(batch.ents) = 1
  /\ flags \cap {"raced", "cut", "moved"} = {} => batch.missed <= 0

\* Under StrictlyAtOnce the index is at the reader's position whenever no read
\* is under way, except after two reads have saved in the opposite order
\* (walrus_read.rs:1175: the column lock is gone by then).
SavedIsCurrent ==
  workload.strict /\ Quiet /\ col_info.hydrated /\ flags = {} => SavedEntries(index) = Len(got)

\* With no read under way the topic's count is what is left to read
\* (walrus_read.rs:1193).
CountIsUnread ==
  Quiet /\ flags = {} => count = written - Len(got)

\* A block that a read reports as checkpointed, and that may then be deleted
\* with its file, has no entry that is still to be read (walrus_read.rs:684).
MarkedIsRead ==
  flags = {} /\ restarts = 0 =>
    \A i \in DOMAIN chain : chain[i].id \in marked =>
      \A k \in DOMAIN chain[i].ents : chain[i].ents[k].n <= Len(got)

\* A read from an offset inside the topic starts with the entry that holds the
\* offset, drops exactly what comes before it, and goes on without a gap,
\* except from the first byte of a block (small entries are stepped over,
\* walrus_read.rs:534) and where it goes from the chain into the tail
\* (walrus_read.rs:787 takes the remainder in the sealed block for one in the
\* active block).
StatelessFromOffset ==
  batch.inside /\ "raced" \notin flags =>
    LET first == batch.ents[1].n
        ents  == FlattenSeq([i \in DOMAIN Blocks(chain, active) |->
                               Blocks(chain, active)[i].ents])
    IN  /\ batch.ents # <<>>
        /\ \A k \in DOMAIN batch.ents : batch.ents[k].n = first + k - 1
        /\ first = EntryAt(batch.at)
        /\ batch.trim = Larger(0, batch.at - SizeOf(SubSeq(ents, 1, first - 1)) - Meta)

\* What batch_read_for_topic promises, together: order, budget, the saved
\* position, the count, the checkpointed blocks and reads from an offset.
BatchReadsCorrect ==
  /\ BatchesInOrder /\ BatchWithinBudget /\ SavedIsCurrent
  /\ CountIsUnread /\ MarkedIsRead /\ StatelessFromOffset
=============================================================================
