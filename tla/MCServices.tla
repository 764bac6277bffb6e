---------------------------- MODULE MCServices ----------------------------
(***************************************************************************)
(* The services around the log, one per behaviour: part says which one     *)
(* runs; the others stay in an initial state in which they have no work.   *)
(*                                                                         *)
(* Batch reads have blocks of eight slots: a header is one slot, an entry  *)
(* of one slot is small, and a block holds four of those or two of three   *)
(* slots.  The requests ask for less than an entry, for less than a block, *)
(* or for everything.  Two readers race each other and the writer; one is  *)
(* restarted; one takes and looks ahead without StrictlyAtOnce; one reads  *)
(* from every offset.                                                      *)
(***************************************************************************)
EXTENDS ChunkTransfer, ClusterJoin, TopicClean, StateDb, WalBatch

CONSTANTS r1, r2

VARIABLE part

servicesVars == <<part, chunkVars, joinVars, markVars, dbVars, batchVars>>

Takes(maxes)   == [max : maxes, cp : {TRUE}, at : {-1}]
Peeks(maxes)   == [max : maxes, cp : {FALSE}, at : {-1}]
Offsets(maxes) == [max : maxes, cp : {FALSE}, at : 0..12]

MCReaders == {r1, r2}

MCLoads ==
  { [readers |-> MCReaders, sizes |-> {3}, strict |-> TRUE, entries |-> 4, reads |-> 3,
     restarts |-> 0, requests |-> Takes({1, 40})],
    [readers |-> {r1}, sizes |-> {1, 3}, strict |-> TRUE, entries |-> 4, reads |-> 2,
     restarts |-> 1, requests |-> Takes({1, 5, 40})],
    [readers |-> {r1}, sizes |-> {1, 3}, strict |-> FALSE, entries |-> 4, reads |-> 3,
     restarts |-> 1, requests |-> Takes({5}) \cup Peeks({2})],
    [readers |-> {r1}, sizes |-> {1, 3}, strict |-> TRUE, entries |-> 4, reads |-> 1,
     restarts |-> 0, requests |-> Offsets({2, 40})] }

NoLoad == CHOOSE l \in MCLoads : l.readers = MCReaders

NoChunk ==
  /\ ChunkInit /\ source = CHOOSE c \in Contents : TRUE
  /\ snd.kind = "memory" /\ rcv.kind = "memory"

(* Either every joiner asks once and nothing fails, or one of them is left *)
(* and may ask again while the leader restarts.                            *)
SomeJoin ==
  \/ JoinInit(MaxUpsets, [n \in Joiners |-> JoinAttempts - 1])
  \/ JoinInit(0, [n \in Joiners |-> IF n = 2 THEN 0 ELSE JoinAttempts])

NoJoin == JoinInit(MaxUpsets, [n \in Joiners |-> JoinAttempts])

ServicesInit ==
  /\ part \in {"chunk", "join", "clean", "db", "batch"}
  /\ MarkInit
  /\ IF part = "chunk" THEN ChunkInit ELSE NoChunk
  /\ IF part = "join" THEN SomeJoin ELSE NoJoin
  /\ DbInit(IF part = "db" THEN {"redb", "walrus"} ELSE {"redb"})
  /\ BatchInit /\ (part = "batch" \/ workload = NoLoad)

ServicesNext ==
  /\ UNCHANGED part
  /\ \/ part = "chunk" /\ ChunkNext /\ UNCHANGED <<joinVars, markVars, dbVars, batchVars>>
     \/ part = "join" /\ JoinNext /\ UNCHANGED <<chunkVars, markVars, dbVars, batchVars>>
     \/ part = "clean" /\ MarkNext /\ UNCHANGED <<chunkVars, joinVars, dbVars, batchVars>>
     \/ part = "db" /\ DbNext /\ UNCHANGED <<chunkVars, joinVars, markVars, batchVars>>
     \/ part = "batch" /\ BatchNext /\ UNCHANGED <<chunkVars, joinVars, markVars, dbVars>>

ServicesSpec == ServicesInit /\ [][ServicesNext]_servicesVars

=============================================================================
