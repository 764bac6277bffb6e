----------------------------- MODULE OctopiiWal -----------------------------
(***************************************************************************)
(* The write-ahead logs of one octopii node (octopii/src/wal): the         *)
(* WriteAheadLog wrapper and, under it, octopii's own copy of the Walrus   *)
(* engine.  A node opens its logs one after the other (the Raft log, then  *)
(* the peer addresses), replays each with read_all and then appends.  The  *)
(* copy differs from src/wal: its batch read does not look ahead at the    *)
(* size of the first entry, its recovery steps over blank blocks, and its  *)
(* position is read once more by startup_chore.                            *)
(*                                                                         *)
(* Sizes are counted in slots: a default block has Unit slots, an entry    *)
(* takes its header and its payload.  The trackers of block and file       *)
(* states are process-wide and keyed by block id, which every log numbers  *)
(* from 1.  A crash ends the process; what was written stays.              *)
(***************************************************************************)
EXTENDS Integers, FiniteSets, SequencesExt

CONSTANTS Order,         \* the logs in the order in which the node opens them
          Unit,          \* DEFAULT_BLOCK_SIZE
          UnitsPerFile,  \* BLOCKS_PER_FILE
          HeaderSize,    \* PREFIX_META_SIZE
          MaxBytes,      \* what read_all asks for in one batch
          MaxBatchEntries,
          MaxEntries

ASSUME WalAssumption ==
  /\ {Unit, UnitsPerFile, HeaderSize, MaxBytes, MaxBatchEntries} \subseteq Nat \ {0}
  /\ MaxEntries \in Nat

VARIABLES stored,    \* the blocks of each log, in the order of their files
          index,     \* the persisted read offset of each log
          gone,      \* the files that were deleted
          opened,    \* how many logs this process has opened
          replay,    \* the read_all in progress
          alloc,     \* BlockAllocator::next_block of each log
          writer,    \* Writer: the active block and current_offset
          info,      \* ColReaderInfo of each log
          blockFile, \* BlockStateTracker: the file of each block id
          fileState, \* FileStateTracker
          deleted,   \* the files flush_check asked the worker to delete
          appended,  \* the entries appended, in order
          handed,    \* the entries read_all has handed out for good
          failures, restarts,
          role       \* entry sizes, bounds, and whether a running node reads again

walVars == <<stored, index, gone, opened, replay, alloc, writer, info, blockFile, fileState,
             deleted, appended, handed, failures, restarts, role>>

Wal == Range(Order)

-----------------------------------------------------------------------------
NoReplay == [wal |-> "none", got |-> <<>>, empty |-> 0]
NoBlock  == [at |-> 0, id |-> 0, off |-> 0]
NoIndex  == [kind |-> "none", pos |-> 0, off |-> 0]
FreshInfo == [chain |-> <<>>, idx |-> 0, off |-> 0, tail |-> 0, tailOff |-> 0,
              hydrated |-> FALSE]
FreshFile == [locked |-> 0, checkpointed |-> 0, total |-> 0, full |-> FALSE]

Least(a, b) == IF a < b THEN a ELSE b

InChain(ri, id) == {i \in DOMAIN ri.chain : ri.chain[i].id = id}

SizeOf(cells) == FoldLeft(LAMBDA n, e : n + e.size, 0, cells)

IsFile(f) == f[1] \in Wal /\ f[2] \in Nat

\* The type of the state.
WalTypeOK ==
  /\ \A w \in Wal :
       /\ \A p \in DOMAIN stored[w] :
            SizeOf(stored[w][p].cells) <= stored[w][p].units * Unit
       /\ index[w] \in [kind : {"none", "chain", "tail"}, pos : Nat, off : Nat]
       /\ writer[w].at \in 0..Len(stored[w])
       /\ info[w].idx \in 0..Len(info[w].chain)
  /\ opened \in 0..Len(Order)
  /\ replay.wal \in Wal \cup {"none"} /\ replay.empty \in 0..1
  /\ \A f \in DOMAIN fileState : IsFile(f) /\ fileState[f].locked \in 0..65535

-----------------------------------------------------------------------------
(* The trackers.                                                           *)

\* register_file_if_absent and register_block: the first file registered for
\* a block id stays.
FileRegistered(fs, f) == IF f \in DOMAIN fs THEN fs ELSE fs @@ (f :> FreshFile)
BlockRegistered(bf, id, f) == IF id \in DOMAIN bf THEN bf ELSE bf @@ (id :> f)

FullyAllocated(fs, f) == [FileRegistered(fs, f) EXCEPT ![f].full = TRUE]

BlockAdded(fs, f) == [FileRegistered(fs, f) EXCEPT ![f].total = @ + 1]

Locked(fs, bf, id) ==
  IF bf[id] \in DOMAIN fs THEN [fs EXCEPT ![bf[id]].locked = (@ + 1) % 65536] ELSE fs

Unlocked(fs, bf, id) ==
  IF id \in DOMAIN bf /\ bf[id] \in DOMAIN fs
  THEN [fs EXCEPT ![bf[id]].locked = (@ + 65535) % 65536] ELSE fs

\* flush_check: whether the worker is asked to delete the file.
flush_check(fs, f) ==
  IF f \in DOMAIN fs /\ fs[f].full /\ fs[f].locked = 0 /\ fs[f].total > 0
       /\ fs[f].checkpointed >= fs[f].total
  THEN {f} ELSE {}

\* set_checkpointed_true for the blocks with the given ids, one after the
\* other; each asks for the deletion of its file when it is ready.
Checkpointed(fs, bf, ids) ==
  [f \in DOMAIN fs |->
     [fs[f] EXCEPT !.checkpointed =
        @ + Cardinality({i \in DOMAIN ids : ids[i] \in DOMAIN bf /\ bf[ids[i]] = f})]]

Asked(fs, bf, ids) ==
  UNION {flush_check(fs, bf[ids[i]]) : i \in {j \in DOMAIN ids : ids[j] \in DOMAIN bf}}

-----------------------------------------------------------------------------
(* Opening a log.                                                          *)

NewestFile(w) == Max({0} \cup {stored[w][p].file : p \in DOMAIN stored[w]}
                         \cup {alloc[w].file})

\* The units of a file that an entry of several units covers and does not
\* start in: what recovery finds there is the middle of its payload.
Middle(w, f) ==
  UNION {{stored[w][p].unit + u : u \in 1..(stored[w][p].units - 1)} :
           p \in {q \in DOMAIN stored[w] : stored[w][q].file = f /\ stored[w][q].cells # <<>>}}

\* How many units of a file the scan goes through: bytes that look like a
\* header and are none end it, everything else is stepped over.
UnitsScanned(w, f) ==
  IF role.middle = "header" /\ Middle(w, f) # {} THEN Min(Middle(w, f)) ELSE UnitsPerFile

Ranked(S) == [i \in 1..Cardinality(S) |-> CHOOSE p \in S : Cardinality({q \in S : q <= p}) = i]

SumUnits(w, n) ==
  FoldLeft(LAMBDA sum, f : sum + (IF <<w, f>> \in gone THEN 0 ELSE UnitsScanned(w, f)), 0,
           [f \in 1..n |-> f])

\* The scan of startup_chore: every unit takes an id, also a blank one; the
\* blocks that hold entries make up the chain.
ScanId(w, f, u) == SumUnits(w, f - 1) + u + 1

Scan(w) ==
  LET found == Ranked({p \in DOMAIN stored[w] :
                         /\ <<w, stored[w][p].file>> \notin gone
                         /\ stored[w][p].cells # <<>>
                         /\ stored[w][p].unit < UnitsScanned(w, stored[w][p].file)})
  IN  [i \in DOMAIN found |-> [at |-> found[i],
                               id |-> ScanId(w, stored[w][found[i]].file,
                                             stored[w][found[i]].unit),
                               used |-> SizeOf(stored[w][found[i]].cells)]]

\* Where startup_chore puts the reader: a tail position counts as past the
\* whole chain here.
StartupPosition(w, chain) ==
  LET ib == IF index[w].kind = "tail" THEN Len(chain) ELSE Least(index[w].pos, Len(chain))
  IN  [idx |-> ib, off |-> IF ib < Len(chain) THEN Least(index[w].off, chain[ib + 1].used)
                           ELSE 0]

\* The blocks startup_chore marks as read.
ReadAlready(chain, at) ==
  [i \in 1..(at.idx + IF at.idx < Len(chain) /\ at.off >= chain[at.idx + 1].used
                      THEN 1 ELSE 0) |-> chain[i].id]

\* WriteAheadLog::new, Walrus::with_paths: the allocator starts a new file,
\* then startup_chore recovers the blocks, and the ids go on after theirs.
Open ==
  LET w      == Order[opened + 1]
      file   == NewestFile(w) + 1
      chain  == Scan(w)
      at     == StartupPosition(w, chain)
      fileOf(b) == <<w, stored[w][b.at].file>>
      found(f) == [FreshFile EXCEPT !.total =
                     Cardinality({i \in DOMAIN chain : fileOf(chain[i]) = f})]
      seen   == {<<w, n>> : n \in 1..file} \ gone
      listed == fileState @@ [f \in seen |-> found(f)]
      filed  == blockFile @@ [id \in {chain[i].id : i \in DOMAIN chain} |->
                                fileOf(chain[Min(InChain([chain |-> chain], id))])]
      known  == index[w].kind # "none" /\ chain # <<>>
      marks  == IF known THEN ReadAlready(chain, at) ELSE <<>>
      marked == Checkpointed(listed, filed, marks)
  IN  /\ opened < Len(Order) /\ replay = NoReplay
      /\ blockFile' = filed
      /\ fileState' = marked
      /\ deleted' = deleted \cup Asked(marked, filed, marks)
                            \cup UNION {flush_check(marked, f) : f \in seen}
      /\ info' = [info EXCEPT ![w] = [FreshInfo EXCEPT !.chain = chain,
                    !.idx = IF known THEN at.idx ELSE 0,
                    !.off = IF known THEN at.off ELSE 0]]
      /\ alloc' = [alloc EXCEPT ![w] = [file |-> file, unit |-> 0,
                                        id |-> ScanId(w, file, UnitsPerFile)]]
      /\ opened' = opened + 1
      /\ replay' = [NoReplay EXCEPT !.wal = w]
      /\ UNCHANGED <<stored, index, gone, writer, appended, handed, failures, restarts, role>>

-----------------------------------------------------------------------------
(* Reading a batch.                                                        *)

\* The first read of a process takes its position from the index; a tail
\* position is folded into the chain block with its id, if there is one.
Hydrated(w, ri) ==
  LET len == Len(ri.chain)
      at(i, off) == [ri EXCEPT !.hydrated = TRUE, !.idx = i,
                       !.off = IF i < len THEN Least(off, ri.chain[i + 1].used) ELSE 0]
      pos == index[w]
  IN  CASE ri.hydrated -> ri
        [] ~ri.hydrated /\ pos.kind = "none"  -> [ri EXCEPT !.hydrated = TRUE]
        [] ~ri.hydrated /\ pos.kind = "chain" -> at(Least(pos.pos, len), pos.off)
        [] ~ri.hydrated /\ pos.kind = "tail"  ->
             [IF InChain(ri, pos.pos) # {} THEN at(Min(InChain(ri, pos.pos)) - 1, pos.off)
              ELSE at(len, 0)
              EXCEPT !.tail = pos.pos, !.tailOff = pos.off]

\* The plan for the sealed blocks: a block from the position on is read as far
\* as the budget goes, which the blocks before it have used up in part.
From(ri, i) == IF i = ri.idx + 1 THEN ri.off ELSE 0
Left(ri, i) == IF i <= ri.idx \/ From(ri, i) >= ri.chain[i].used THEN 0
               ELSE ri.chain[i].used - From(ri, i)
Before(ri, i) == FoldLeft(LAMBDA sum, j : sum + Left(ri, j), 0, [j \in 1..(i - 1) |-> j])

Visited(ri) == {i \in DOMAIN ri.chain : i > ri.idx /\ Before(ri, i) < MaxBytes}

ChainPlan(ri) ==
  LET seen == Ranked(Visited(ri))
      range(i) == [at |-> ri.chain[i].at, id |-> ri.chain[i].id, from |-> From(ri, i),
                   to |-> Least(ri.chain[i].used, From(ri, i) + MaxBytes - Before(ri, i)),
                   idx |-> i - 1, tail |-> FALSE]
      some == SelectSeq(seen, LAMBDA i : Left(ri, i) > 0)
      none == SelectSeq(seen, LAMBDA i : Left(ri, i) = 0)
  IN  [ranges |-> [n \in DOMAIN some |-> range(some[n])],
       passed |-> [n \in DOMAIN none |-> ri.chain[none[n]].id],
       next   |-> Max(Visited(ri) \cup {ri.idx})]

\* The active block comes after the last sealed one.
TailPlan(w, ri, plan) ==
  LET from == IF ri.tail = writer[w].id THEN ri.tailOff ELSE 0
  IN  IF plan.next >= Len(ri.chain) /\ writer[w] # NoBlock /\ from < writer[w].off
      THEN Append(plan.ranges, [at |-> writer[w].at, id |-> writer[w].id, from |-> from,
                                to |-> writer[w].off, idx |-> Len(ri.chain), tail |-> TRUE])
      ELSE plan.ranges

\* The entries of one range, up to the first that is cut off or over the
\* budget, which counts payloads only; n entries with total bytes of payload
\* were parsed before.  The ranges after it are still read.
Parsable(cells, range, n, total) ==
  LET start == Max({k \in 0..Len(cells) : SizeOf(SubSeq(cells, 1, k)) <= range.from})
      end(k) == SizeOf(SubSeq(cells, 1, k))
      paid(k) == total + end(k) - end(start) - (k - start) * HeaderSize
      fits(k) == /\ end(k) <= range.to
                 /\ paid(k) <= MaxBytes \/ n + k - start = 1
                 /\ n + k - start <= MaxBatchEntries
      last == Max({k \in start..Len(cells) : \A j \in (start + 1)..k : fits(j)})
  IN  [ids |-> [k \in 1..(last - start) |-> cells[start + k].id],
       to |-> end(last), total |-> paid(last)]

Parsed(w, acc, range) ==
  LET here == Parsable(stored[w][range.at].cells, range, Len(acc.got), acc.total)
  IN  IF here.ids = <<>> THEN acc
      ELSE [got |-> acc.got \o here.ids, total |-> here.total,
            last |-> [range EXCEPT !.to = here.to]]

ParsedAll(w, ranges) ==
  FoldLeft(LAMBDA acc, range : Parsed(w, acc, range),
           [got |-> <<>>, total |-> 0, last |-> NoIndex], ranges)

\* Where the reader is after a batch: past the last entry parsed.
Committed(ri, parsed) ==
  LET last == parsed.last
  IN  CASE parsed.got = <<>> -> ri
        [] parsed.got # <<>> /\ last.tail ->
             [ri EXCEPT !.idx = Len(ri.chain), !.off = 0, !.tail = last.id,
                        !.tailOff = last.to]
        [] parsed.got # <<>> /\ ~last.tail ->
             [ri EXCEPT !.idx = last.idx, !.off = last.to]

\* Faulty: the position in memory is moved, and the one on disk is not.
BadPersisted(w, parsed) == index[w]

\* The position that is written to the index.
Persisted(w, parsed) ==
  LET last == parsed.last
  IN  IF parsed.got = <<>> THEN index[w]
      ELSE [kind |-> IF last.tail THEN "tail" ELSE "chain",
            pos |-> IF last.tail THEN last.id ELSE last.idx, off |-> last.to]

\* The loop of read_all, which ends with the second empty batch in a row.
ReplayGoesOn(got) ==
  CASE got # <<>> -> [replay EXCEPT !.got = @ \o got, !.empty = 0]
    [] got = <<>> /\ replay.empty = 0 -> [replay EXCEPT !.empty = 1]
    [] got = <<>> /\ replay.empty = 1 -> NoReplay

\* batch_read_for_topic with checkpoint, under the column lock.
BatchRead(w) ==
  LET ri     == Hydrated(w, info[w])
      plan   == ChainPlan(ri)
      parsed == ParsedAll(w, TailPlan(w, ri, plan))
      marked == Checkpointed(fileState, blockFile, plan.passed)
  IN  /\ info' = [info EXCEPT ![w] = Committed(ri, parsed)]
      /\ index' = [index EXCEPT ![w] = Persisted(w, parsed)]
      /\ fileState' = marked
      /\ deleted' = deleted \cup Asked(marked, blockFile, plan.passed)
      /\ handed' = [handed EXCEPT ![w] = @ \o parsed.got]
      /\ replay' = ReplayGoesOn(parsed.got)

\* One batch of read_all.
ReadAll ==
  /\ replay # NoReplay
  /\ BatchRead(replay.wal)
  /\ UNCHANGED <<stored, gone, opened, alloc, writer, blockFile, appended, failures, restarts,
                 role>>

\* read_all in a node that has appended.
ReadAgain(w) ==
  /\ role.again
  /\ opened = Len(Order) /\ replay = NoReplay
  /\ handed[w] # appended[w]
  /\ replay' = [NoReplay EXCEPT !.wal = w]
  /\ UNCHANGED <<stored, index, gone, opened, alloc, writer, info, blockFile, fileState,
                 deleted, appended, handed, failures, restarts, role>>

-----------------------------------------------------------------------------
(* Appending.                                                              *)

Units(size) == (size + Unit - 1) \div Unit

\* alloc_block: the next units of the file, or a new file, of which the one
\* before is then fully allocated.
Allocated(w, units) ==
  LET over == alloc[w].unit + units > UnitsPerFile
  IN  [file |-> IF over THEN alloc[w].file + 1 ELSE alloc[w].file,
       unit |-> IF over THEN 0 ELSE alloc[w].unit]

Allocate(w, units, files, asked) ==
  LET new   == Allocated(w, units)
      over  == new.file # alloc[w].file
      old   == <<w, alloc[w].file>>
      full  == IF over THEN FullyAllocated(files, old) ELSE files
      id    == alloc[w].id
  IN  /\ blockFile' = BlockRegistered(blockFile, id, <<w, new.file>>)
      /\ fileState' = Locked(BlockAdded(full, <<w, new.file>>), blockFile', id)
      /\ deleted' = deleted \cup asked \cup (IF over THEN flush_check(full, old) ELSE {})
      /\ alloc' = [alloc EXCEPT ![w] = [file |-> new.file, unit |-> new.unit + units,
                                        id |-> id + 1]]

Ready == opened = Len(Order) /\ replay = NoReplay

\* get_or_create_writer, in the first append of this process.
CreateWriter(w) ==
  /\ Ready /\ writer[w] = NoBlock /\ w \in role.logs
  /\ Allocate(w, 1, fileState, {})
  /\ stored' = [stored EXCEPT ![w] = Append(@, [file |-> Allocated(w, 1).file,
                                            unit |-> Allocated(w, 1).unit,
                                            units |-> 1, cells |-> <<>>])]
  /\ writer' = [writer EXCEPT ![w] = [at |-> Len(stored[w]) + 1, id |-> alloc[w].id,
                                      off |-> 0]]
  /\ UNCHANGED <<index, gone, opened, replay, info, appended, handed, failures, restarts,
                 role>>

\* append_block_to_chain.
Sealed(ri, b) ==
  LET pushed == [ri EXCEPT !.chain = Append(@, [at |-> b.at, id |-> b.id, used |-> b.off])]
  IN  IF ri.tail = b.id
      THEN [pushed EXCEPT !.idx = Len(ri.chain), !.off = Least(ri.tailOff, b.off)]
      ELSE pushed

EntriesOfAll == FoldFunction(LAMBDA entries, n : n + Len(entries), 0, appended)

Room(w) == stored[w][writer[w].at].units * Unit - writer[w].off

\* WriteAheadLog::append, Writer::write: an entry that does not fit seals the
\* block and takes a new one of as many units as it needs.
Write(w, size) ==
  LET e     == [id |-> Len(appended[w]) + 1, size |-> size]
      b     == writer[w]
      fits  == size <= Room(w)
      files == Unlocked(fileState, blockFile, b.id)
      new   == Allocated(w, Units(size))
  IN  /\ Ready /\ b # NoBlock /\ EntriesOfAll < MaxEntries
      /\ \/ /\ fits
            /\ stored' = [stored EXCEPT ![w][b.at].cells = Append(@, e)]
            /\ writer' = [writer EXCEPT ![w].off = @ + size]
            /\ UNCHANGED <<info, blockFile, fileState, deleted, alloc>>
         \/ /\ ~fits
            /\ Allocate(w, Units(size), files, Asked(files, blockFile, <<b.id>>))
            /\ info' = [info EXCEPT ![w] = Sealed(@, b)]
            /\ stored' = [stored EXCEPT ![w] = Append(@, [file |-> new.file, unit |-> new.unit,
                                                      units |-> Units(size),
                                                      cells |-> <<e>>])]
            /\ writer' = [writer EXCEPT ![w] = [at |-> Len(stored[w]) + 1, id |-> alloc[w].id,
                                                off |-> size]]
      /\ appended' = [appended EXCEPT ![w] = Append(@, e.id)]
      /\ UNCHANGED <<index, gone, opened, replay, handed, failures, restarts, role>>

\* An entry of more than MAX_ALLOC bytes: the block is unlocked and sealed
\* before alloc_block refuses, and stays the active one.
WriteTooLarge(w) ==
  LET files == Unlocked(fileState, blockFile, writer[w].id)
  IN  /\ Ready /\ writer[w] # NoBlock /\ failures < role.failures
      /\ failures' = failures + 1
      /\ fileState' = files
      /\ deleted' = deleted \cup Asked(files, blockFile, <<writer[w].id>>)
      /\ info' = [info EXCEPT ![w] = Sealed(@, writer[w])]
      /\ UNCHANGED <<stored, index, gone, opened, replay, alloc, writer, blockFile, appended,
                     handed, restarts, role>>

-----------------------------------------------------------------------------
\* The worker deletes what it was asked to, once in a thousand rounds.
DeleteFile(f) ==
  /\ gone' = gone \cup {f}
  /\ deleted' = deleted \ {f}
  /\ UNCHANGED <<stored, index, opened, replay, alloc, writer, info, blockFile, fileState,
                 appended, handed, failures, restarts, role>>

FreshProcess ==
  /\ opened' = 0 /\ replay' = NoReplay
  /\ alloc' = [w \in Wal |-> [file |-> NewestFile(w), unit |-> 0, id |-> 1]]
  /\ writer' = [w \in Wal |-> NoBlock]
  /\ info' = [w \in Wal |-> FreshInfo]
  /\ blockFile' = <<>> /\ fileState' = <<>> /\ deleted' = {}

\* The process ends at any point; a new one opens the same directories.
WalCrash ==
  /\ restarts < role.restarts
  /\ restarts' = restarts + 1
  /\ FreshProcess
  /\ UNCHANGED <<stored, index, gone, appended, handed, failures, role>>

WalInit ==
  /\ stored = [w \in Wal |-> <<>>]
  /\ index = [w \in Wal |-> NoIndex]
  /\ gone = {} /\ opened = 0 /\ replay = NoReplay
  /\ alloc = [w \in Wal |-> [file |-> 0, unit |-> 0, id |-> 1]]
  /\ writer = [w \in Wal |-> NoBlock]
  /\ info = [w \in Wal |-> FreshInfo]
  /\ blockFile = <<>> /\ fileState = <<>> /\ deleted = {}
  /\ appended = [w \in Wal |-> <<>>] /\ handed = [w \in Wal |-> <<>>]
  /\ failures = 0 /\ restarts = 0

WalNext ==
  \/ Open \/ ReadAll \/ WalCrash
  \/ \E w \in Wal :
       \/ CreateWriter(w) \/ WriteTooLarge(w) \/ ReadAgain(w)
       \/ \E size \in role.sizes : Write(w, size)
  \/ \E f \in deleted : DeleteFile(f)

-----------------------------------------------------------------------------
(* Properties.                                                             *)

\* read_all hands out every entry once and in the order of the appends, over
\* batches, block and file boundaries and crashes between two batches; and
\* when it ends, nothing that was appended before is left.
HandedInOrder ==
  \A w \in Wal :
    /\ IsPrefix(handed[w], appended[w])
    /\ (opened > 0 /\ replay = NoReplay /\ w = Order[opened] /\ writer[w] = NoBlock)
         => handed[w] = appended[w]

\* No file is deleted that holds an entry read_all has not handed out, in a
\* node that reads one of its logs while it runs (the trackers take the
\* blocks of two logs that have the same id for one).
DeletedWasRead ==
  \A w \in Wal : \A p \in DOMAIN stored[w] :
    <<w, stored[w][p].file>> \in gone =>
      \A i \in DOMAIN stored[w][p].cells : Contains(handed[w], stored[w][p].cells[i].id)
=============================================================================
