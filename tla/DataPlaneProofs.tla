-------------------------- MODULE DataPlaneProofs ---------------------------
(***************************************************************************)
(* Theorems about the data plane, for any number of nodes, topics, PUTs and*)
(* proposals in flight, and any bounds.                                    *)
(***************************************************************************)
EXTENDS DataPlanePuts, DataPlaneGets, CardinalityProofs

-----------------------------------------------------------------------------
(* The invariant holds.                                                    *)

LEMMA DataInvInit == DataInit => DataInv
<1> SUFFICES ASSUME ReplicaInit, DataIdle
             PROVE  DataInv
  BY Zenon DEF DataInit
<1>1. ReplicaInv
  BY ReplicaInvInit, Zenon
<1>2. SegmentsBounded
  BY DEF SegmentsBounded, ReplicaInit, EmptyCluster
<1>3. DataTypeOK
  BY IdleStates DEF DataTypeOK, DataIdle
<1>4. LeaseInv
  BY Zenon DEF LeaseInv, DataIdle, IdlePut, Idle
<1>5. \A n \in Node, k \in Key : Stored(n, k) = {} /\ wal[n][k] = <<>>
  BY DEF Stored, DataIdle
<1>6. GetInv
  BY Zenon DEF GetInv, GetsRight, DataIdle, IdleGet, Idle
<1>7. OnceInv
  <2>1. \A r \in Req : ~Wrote(put[r]) /\ result[r] # "ok"
    BY Zenon DEF DataIdle, IdlePut, Wrote, Idle
  <2>2. OneCopy
    BY <1>5 DEF OneCopy
  <2> QED
    BY <1>5, <2>1, <2>2, Zenon DEF OnceInv
<1> QED
  BY <1>1, <1>2, <1>3, <1>4, <1>6, <1>7, Zenon DEF DataInv, MetaInv

LEMMA DataInvNext == DataInv /\ [DataNext]_dataVars => DataInv'
<1> SUFFICES ASSUME DataInv, [DataNext]_dataVars
             PROVE  DataInv'
  BY Zenon
<1>1. CASE MetadataStep
  BY <1>1, MetadataStepStep, Zenon
<1>2. CASE SetupNext
  BY <1>2, SetupStep, Zenon
<1>3. CASE PutNext
  <2>1. PICK r \in Req :
          \/ \E n \in Node, t \in Topic : PutStart(r, n, t) \/ PutRefused(r, n, t)
          \/ HandlePut(r)
          \/ PutTimeout(r)
    BY <1>3, Zenon DEF PutNext
  <2> QED
    BY <2>1, PutStartStep, PutRefusedStep, PutDeliverStep, PutReadOwnedStep,
       PutInstallLeasesStep, PutCheckLeaseStep, PutWriteStep, PutWriteFailsStep,
       PutRecordStep, PutMaybeRolloverStep, PutReplyStep, PutTimeoutStep DEF HandlePut
<1>4. CASE LeaseNext
  BY <1>4, LeaseStep, Zenon
<1>5. CASE MonitorNext
  BY <1>5, MonitorStep, Zenon
<1>6. CASE GetNext
  BY <1>6, GetStartStep, GetRoundStep, GetServeStep, GetReplyStep, GetFailsStep, Zenon
       DEF GetNext, HandleGet
<1>7. ASSUME NEW n \in Node, NodeRestart(n)
      PROVE  DataInv'
  BY <1>7, NodeRestartStep, Zenon
<1>8. CASE UNCHANGED dataVars
  <2>1. /\ MetaMoves
        /\ UNCHANGED <<leases, sync, offsets, wal, position, putVars, monitor, getVars>>
    BY <1>8, Zenon DEF dataVars, MetaMoves
  <2>2. monitor' \in [Node -> SUBSET Key]
    BY <2>1, Zenon DEF DataInv, DataTypeOK
  <2> QED
    BY <2>1, <2>2, MetaStep, Zenon
<1> QED
  BY <1>1, <1>2, <1>3, <1>4, <1>5, <1>6, <1>7, <1>8, Zenon DEF DataNext

LEMMA DataInvAlways == DataSpec => []DataInv
BY DataInvInit, DataInvNext, PTL DEF DataSpec

-----------------------------------------------------------------------------
(* The counts and what is returned.                                        *)

\* The facts about the state that the lemmas above ask for.
LEMMA TypeFacts == DataInv => DataTypeOK /\ OnceInv /\ restarts \in Nat
<1>1. ReplicaTypeOK => restarts \in Nat
  BY DEF ReplicaTypeOK
<1> QED
  BY <1>1, Zenon DEF DataInv, MetaInv, ReplicaInv

\* Storing an entry preserves both invariants.
LEMMA PutWriteKeeps ==
  ASSUME DataInv, NEW r \in Req, PutWrite(r)
  PROVE  (CountInv => CountInv') /\ (ReturnInv => ReturnInv')
<1>1. DataTypeOK /\ restarts \in Nat
  BY TypeFacts, Zenon
<1>2. PICK n \in Node, k \in Key : WritesEntry(r, n, k)
  BY PutWriteAppends, Zenon
<1>3. CountInv => CountInv'
  BY <1>1, <1>2, AppendKeepsCount, Zenon DEF WritesEntry
<1>4. ReturnInv => ReturnInv'
  BY <1>1, <1>2, AppendKeepsReturn, Zenon DEF WritesEntry
<1> QED
  BY <1>3, <1>4, Zenon

LEMMA CountInvNext ==
  ASSUME DataInv, DataInv', CountInv, [DataNext]_dataVars
  PROVE  CountInv'
<1>1. ASSUME Uncounted
      PROVE  CountInv'
  BY <1>1, CountKept, Zenon DEF Uncounted, DataInv
<1>2. ASSUME UNCHANGED <<offsets, wal, putVars>>
      PROVE  CountInv'
  BY <1>1, <1>2, Zenon DEF Uncounted, putVars
<1>3. CASE MetadataStep \/ SetupNext \/ LeaseNext \/ MonitorNext
  BY <1>2, <1>3, Zenon
     DEF MetadataStep, SetupNext, Register, UpsertNode, LeaseNext, LeaseLoopRead,
         LeaseLoopInstall, MonitorNext, MonitorTick, MonitorCheck
<1>4. CASE GetNext
  BY <1>2, <1>4, Zenon
     DEF GetNext, HandleGet, GetStart, GetRound, GetServe, GetReply, GetFails
<1>5. CASE PutNext
  <2>1. PICK r \in Req :
          \/ \E n \in Node, t \in Topic : PutStart(r, n, t) \/ PutRefused(r, n, t)
          \/ HandlePut(r)
          \/ PutTimeout(r)
    BY <1>5, Zenon DEF PutNext
  <2>2. CASE PutWrite(r)
    BY <2>2, PutWriteKeeps, Zenon
  <2>3. CASE PutRecord(r)
    BY <2>3, PutRecordKeepsCount, TypeFacts, Zenon
  <2>4. CASE ~PutWrite(r) /\ ~PutRecord(r)
    <3>1. Uncounted
      BY <2>1, <2>4, OtherPutSteps, Zenon DEF HandlePut
    <3> QED
      BY <1>1, <3>1, Zenon
  <2> QED
    BY <2>2, <2>3, <2>4, Zenon
<1>6. CASE \E n \in Node : NodeRestart(n)
  BY <1>6, RestartKeepsCount, TypeFacts, Zenon
<1>7. CASE UNCHANGED dataVars
  BY <1>2, <1>7, Zenon DEF dataVars
<1> QED
  BY <1>3, <1>4, <1>5, <1>6, <1>7 DEF DataNext

LEMMA CountInvAlways == DataSpec => []CountInv
<1>1. DataInv /\ DataInv' /\ CountInv /\ [DataNext]_dataVars => CountInv'
  BY CountInvNext, Zenon
<1> QED
  BY <1>1, CountInvInit, DataInvAlways, PTL DEF DataSpec

-----------------------------------------------------------------------------
(* What is returned.                                                       *)

LEMMA ReturnInvNext ==
  ASSUME DataInv, DataInv', ReturnInv, [DataNext]_dataVars
  PROVE  ReturnInv'
<1>1. DataTypeOK /\ OneCopy /\ restarts \in Nat
  BY TypeFacts, Zenon DEF OnceInv
<1>2. ASSUME UNCHANGED <<wal, position, getVars, restarts>>
      PROVE  ReturnInv'
  BY <1>2, ReturnKept, Zenon DEF getVars
<1>3. CASE MetadataStep
  BY <1>2, <1>3, Zenon DEF MetadataStep, Commit, Lose, ApplyNext
<1>4. CASE SetupNext
  BY <1>2, <1>4, Zenon DEF SetupNext, Register, UpsertNode, Propose
<1>5. CASE LeaseNext
  BY <1>2, <1>5, Zenon DEF LeaseNext, LeaseLoopRead, LeaseLoopInstall, replicaVars
<1>6. CASE MonitorNext
  BY <1>2, <1>6, Zenon DEF MonitorNext, MonitorTick, MonitorCheck, ProposeRollover, Propose,
                           replicaVars
<1>7. CASE PutNext
  <2>1. CASE \E r \in Req : PutWrite(r)
    BY <2>1, PutWriteKeeps, Zenon
  <2>2. CASE ~\E r \in Req : PutWrite(r)
    BY <1>2, <1>7, <2>2, PutsLeaveReaders
  <2> QED
    BY <2>1, <2>2, Zenon
<1>8. CASE GetNext
  <2>1. ReadStep
    BY <1>8, GetsRead, Zenon
  <2> QED
    BY <1>1, <2>1, ServeReturns, ReplyReturns, HoldingShrinks, Zenon
       DEF ReadStep, Idles
<1>9. CASE \E n \in Node : NodeRestart(n)
  <2>1. restarts' = restarts + 1
    BY <1>9, RestartKeeps, Zenon DEF DataInv, NodeRestart
  <2> QED
    BY <1>1, <1>9, <2>1, RestartKeepsReturn
<1>10. CASE UNCHANGED dataVars
  BY <1>2, <1>10, Zenon DEF dataVars, replicaVars
<1> QED
  BY <1>3, <1>4, <1>5, <1>6, <1>7, <1>8, <1>9, <1>10, Zenon DEF DataNext

LEMMA ReturnInvAlways == DataSpec => []ReturnInv
<1>1. DataInv /\ DataInv' /\ ReturnInv /\ [DataNext]_dataVars => ReturnInv'
  BY ReturnInvNext, Zenon
<1> QED
  BY <1>1, ReturnInvInit, DataInvAlways, PTL DEF DataSpec

-----------------------------------------------------------------------------
(* The theorems.                                                           *)

\* Every reachable state of the data plane is well typed.
THEOREM DataTypeCorrect == DataSpec => []DataTypeOK
<1>1. DataInv => DataTypeOK
  BY Zenon DEF DataInv
<1> QED
  BY <1>1, DataInvAlways, PTL

\* Lease fencing (bucket.rs, controller/mod.rs): only the node that the
\* committed metadata names as a segment's leader ever stores an entry of it,
\* however stale the replica and the leases it went by.
THEOREM OnlyTheLeaderWrites == DataSpec => []OnlyLeaderWrites
<1>1. DataInv => OnlyLeaderWrites
  BY Zenon DEF DataInv, LeaseInv, Leads, OnlyLeaderWrites
<1> QED
  BY <1>1, DataInvAlways, PTL

\* read_one_for_topic_shared asks the node that stores the segment's entries,
\* although it goes by its own replica, read before the request is sent.
THEOREM GetsAskTheWriter == DataSpec => []GetAsksTheWriter
<1>1. DataInv => GetAsksTheWriter
  <2> SUFFICES ASSUME DataInv, NEW n \in Node, NEW m \in Node,
                      get[n].pc \in {"sent", "reply"}, wal[m][get[n].key] # <<>>
               PROVE  get[n].leader = m
    BY Zenon DEF GetAsksTheWriter
  <2>1. get[n].key \in Key
    BY Zenon DEF DataInv, DataTypeOK, GetState
  <2>2. Leads(m, get[n].key)
    BY <2>1, Zenon DEF DataInv, LeaseInv
  <2>3. Leads(get[n].leader, get[n].key)
    BY Zenon DEF DataInv, GetInv, GetsRight
  <2> QED
    BY <2>2, <2>3, Zenon DEF Leads
<1> QED
  BY <1>1, DataInvAlways, PTL

\* append_with_retry stores no PUT twice, and an acknowledged one is stored,
\* over retries, timeouts, lost messages and restarts.
THEOREM AckedIsStoredOnce == DataSpec => []AckedStoredOnce
<1>1. DataInv => AckedStoredOnce
  <2> SUFFICES ASSUME DataInv, NEW r \in Req
               PROVE  LET copies == {c \in Node \X Key : r \in Stored(c[1], c[2])}
                      IN  /\ result[r] = "ok" => copies # {}
                          /\ \A c, d \in copies : c = d
                          /\ \A c \in copies : \E i \in DOMAIN wal[c[1]][c[2]] :
                               \A j \in DOMAIN wal[c[1]][c[2]] :
                                 wal[c[1]][c[2]][j] = r => j = i
    BY Zenon DEF AckedStoredOnce
  <2> DEFINE copies == {c \in Node \X Key : r \in Stored(c[1], c[2])}
  <2>1. OneCopy /\ (result[r] = "ok" => \E n \in Node, k \in Key : r \in Stored(n, k))
    BY Zenon DEF DataInv, OnceInv
  <2>2. result[r] = "ok" => copies # {}
    <3> SUFFICES ASSUME NEW n \in Node, NEW k \in Key, r \in Stored(n, k)
                 PROVE  copies # {}
      BY <2>1, Zenon
    <3>1. <<n, k>> \in copies
      BY Zenon
    <3> QED
      BY <3>1, Zenon
  <2>3. ASSUME NEW c \in copies
        PROVE  /\ c[1] \in Node /\ c[2] \in Key /\ c = <<c[1], c[2]>>
               /\ \E i \in DOMAIN wal[c[1]][c[2]] : wal[c[1]][c[2]][i] = r
    BY DEF Stored
  <2>4. ASSUME NEW c \in copies, NEW d \in copies
        PROVE  c = d
    BY <2>1, <2>3 DEF OneCopy
  <2>5. ASSUME NEW c \in copies
        PROVE  \E i \in DOMAIN wal[c[1]][c[2]] :
                 \A j \in DOMAIN wal[c[1]][c[2]] : wal[c[1]][c[2]][j] = r => j = i
    BY <2>1, <2>3 DEF OneCopy
  <2> QED
    BY <2>2, <2>4, <2>5, Zenon
<1> QED
  BY <1>1, DataInvAlways, PTL

\* A read cursor never runs ahead of the segments its node's replica knows.
THEOREM CursorsStayWithinSegments == DataSpec => []CursorWithinSegments
<1>1. DataInv => CursorWithinSegments
  BY DEF DataInv, GetInv, GetsRight, CursorWithinSegments
<1> QED
  BY <1>1, DataInvAlways, PTL

\* The count a rollover is proposed with (record_append and the monitor in
\* controller/mod.rs) never exceeds the entries that are in the log.
THEOREM CountsStayWithinLog == DataSpec => []CountsNeverExceedLog
<1>1. DataInv /\ CountInv => CountsNeverExceedLog
  BY CountsAreStored, Zenon DEF DataInv
<1> QED
  BY <1>1, DataInvAlways, CountInvAlways, PTL

\* No entry is returned to clients more often than the cluster's nodes have
\* restarted, plus once, although every node reads with a cursor of its own.
THEOREM EntriesReturnedAtMostOnce == DataSpec => []ReturnedAtMostOnce
<1>1. DataInv /\ ReturnInv => ReturnedAtMostOnce
  BY TypeFacts, ReturnsAreBounded, Zenon
<1> QED
  BY <1>1, DataInvAlways, ReturnInvAlways, PTL
=============================================================================
