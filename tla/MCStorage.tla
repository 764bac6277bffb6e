----------------------------- MODULE MCStorage -----------------------------
(***************************************************************************)
(* What an octopii node keeps on disk, on small instances; part says what  *)
(* runs.  "store": the store that Raft writes to (RaftStorage).  "logs":   *)
(* under it the write-ahead logs (OctopiiWal) of a node that reads at      *)
(* start-up only, with entries of two sizes, and crashes, and of one that  *)
(* also reads what it has just appended.  "io": above it RaftIO with two   *)
(* leaders, of which the first wrote three entries and committed one of    *)
(* them, and the second overwrote the other two and committed its own.     *)
(***************************************************************************)
EXTENDS RaftStorage, OctopiiWal, RaftIO

VARIABLE part

diskVars == <<part, storageVars, walVars, ioVars>>

MCOrder == <<"log", "peers">>

Role(logs, sizes, again, refused, crashed) ==
  [logs |-> logs, sizes |-> sizes, again |-> again, failures |-> refused,
   restarts |-> crashed, middle |-> "data"]

Roles ==
  {Role(Wal, {2, 3}, FALSE, 1, 2), Role({"log"}, {2}, TRUE, 0, 0),
   Role({"log"}, {Unit}, TRUE, 0, 0)}

MCLeaderLog   == <<<<1, 1, 1>>, <<1, 2, 2>>>>
MCCommitLimit == <<1, 3>>

\* An upper bound on each input.
Inputs(votes, appends, installs, snapshots, purges, stops) ==
  [votes |-> votes, appends |-> appends, installs |-> installs,
   snapshots |-> snapshots, purges |-> purges, crashes |-> stops]

\* behind: a snapshot may end before entries the node accepted from its sender.
Scenario(kept, keep, behind, left_) ==
  [policy |-> [kept |-> kept, keep |-> keep, behind |-> behind], left |-> left_]

Scenarios ==
  {Scenario(TRUE, 0, FALSE, Inputs(1, 2, 0, 0, 0, 1)),
   Scenario(TRUE, 0, FALSE, Inputs(0, 1, 1, 1, 1, 1)),
   Scenario(FALSE, 3, FALSE, Inputs(0, 2, 0, 1, 0, 1))}

IONext ==
  \/ \E l \in Leaders, x \in BOOLEAN : HandleVoteRequest(l, x)
  \/ \E l \in Leaders, p \in 0..2, k \in 0..2 :
       /\ p + k <= Len(LeaderLog[l])
       /\ \E c \in {0, CommitLimit[l]} : HandleAppendEntries(l, p, k, c)
  \/ \E l \in Leaders : \E n \in 1..CommitLimit[l] :
       /\ policy.behind \/ IOLeq(eng.log_io.accepted, <<LeaderVote(l), IdIn(l, n)>>)
       /\ HandleInstallSnapshot(l, n)
  \/ TriggerSnapshot
  \/ \E i \in 1..3 : TriggerPurge(i)
  \/ CoreNext \/ WorkerNext \/ BuildSnapshot \/ CoreCrash \/ Restart

DiskInit ==
  /\ part \in {"store", "logs", "io"}
  /\ StorageInit /\ WalInit
  /\ IOInit(IF part = "io" THEN Scenarios
                           ELSE {Scenario(TRUE, 0, FALSE, Inputs(0, 0, 0, 0, 0, 0))})
  /\ role \in IF part = "logs" THEN Roles ELSE {Role(Wal, {2}, FALSE, 0, 0)}

DiskNext ==
  /\ UNCHANGED part
  /\ \/ part = "store" /\ StorageNext /\ UNCHANGED <<walVars, ioVars>>
     \/ part = "logs" /\ WalNext /\ UNCHANGED <<storageVars, ioVars>>
     \/ part = "io" /\ IONext /\ UNCHANGED <<storageVars, walVars>>

DiskSpec == DiskInit /\ [][DiskNext]_diskVars
=============================================================================
