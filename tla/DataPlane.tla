----------------------------- MODULE DataPlane ------------------------------
(***************************************************************************)
(* The data plane of distributed-walrus: PUT and GET requests served by    *)
(* NodeController (controller/mod.rs, controller/internal.rs), the leases  *)
(* and locks of Storage (bucket.rs), the lease loop and the rollover       *)
(* monitor (monitor.rs), on top of the replicated metadata.                *)
(*                                                                         *)
(* A handler is cut at every await where another task of the same or of    *)
(* another node may change what it reads.  Each PUT request is one member  *)
(* of Req and is its own payload; the Walrus engine of a node is the queue *)
(* of module WalQueue here, one per wal key: a durable sequence of entries *)
(* and the position of the consuming reader (read_next with checkpoint),   *)
(* which a restart may put back.  Module WalTopic says when it is one.     *)
(***************************************************************************)
EXTENDS MetadataReplicas, FiniteSets

CONSTANTS Req,               \* the PUT requests clients make
          MaxSegmentEntries  \* the rollover threshold

\* What a read that finds no entry returns.
NoReq == "none"

ASSUME DataPlaneAssumption ==
  /\ Node # {}
  /\ MaxSegmentEntries \in Nat \ {0}
  /\ Topic # {}
  /\ IsFiniteSet(Req)
  /\ NoReq \notin Req

VARIABLES leases,   \* Storage::active_leases of each node
          sync,     \* the sets the lease loop of a node read and has yet to install
          offsets,  \* NodeController::offsets: entries counted per key
          wal,      \* the entries each node stores under each key
          position, \* how many of them its consuming reader has handed out
          put,      \* the handler of each PUT
          result,   \* what the client of each PUT was told
          monitor,  \* the owned segments a monitor tick still has to check
          get,      \* the GET each node is serving
          cursor,   \* NodeController::read_cursors
          got       \* how often each entry was returned to a client

putVars  == <<put, result>>
getVars  == <<get, cursor, got>>
dataVars == <<replicaVars, leases, sync, offsets, wal, position, putVars,
              monitor, getVars>>

-----------------------------------------------------------------------------
\* A topic has at most one segment more than there are committed commands.
Key == Topic \X (1..(MaxLog + 1))

Idle == "idle"

PutPC == {Idle, "sent", "lease", "sync", "check", "write", "record", "count",
          "reply", "done"}

PutState ==
  [pc : PutPC, origin : Node, target : Node, key : Key, attempt : 0..1,
   expected : SUBSET Key, ok : BOOLEAN]

GetState ==
  [pc : {Idle, "loop", "sent", "reply"}, key : Key, leader : Node,
   current : Nat, data : Req \cup {NoReq}]

AnyNode == CHOOSE n \in Node : TRUE
AnyKey  == CHOOSE k \in Key : TRUE

IdlePut == [pc |-> Idle, origin |-> AnyNode, target |-> AnyNode, key |-> AnyKey,
            attempt |-> 0, expected |-> {}, ok |-> FALSE]
IdleGet == [pc |-> Idle, key |-> AnyKey, leader |-> AnyNode, current |-> 0,
            data |-> NoReq]

DataTypeOK ==
  /\ leases \in [Node -> SUBSET Key]
  /\ sync \in [Node -> SUBSET SUBSET Key]
  /\ offsets \in [Node -> [Key -> Nat]]
  /\ wal \in [Node -> [Key -> Seq(Req)]]
  /\ position \in [Node -> [Key -> Nat]]
  /\ put \in [Req -> PutState]
  /\ result \in [Req -> {"none", "ok", "err"}]
  /\ monitor \in [Node -> SUBSET Key]
  /\ get \in [Node -> GetState]
  /\ cursor \in [Node -> [Topic -> [segment : Nat, delivered : Nat]]]
  /\ got \in [Req -> Nat]

\* Everything but the metadata, when no request has been made yet.
DataIdle ==
  /\ leases = [n \in Node |-> {}]
  /\ sync = [n \in Node |-> {}]
  /\ offsets = [n \in Node |-> [k \in Key |-> 0]]
  /\ wal = [n \in Node |-> [k \in Key |-> <<>>]]
  /\ position = [n \in Node |-> [k \in Key |-> 0]]
  /\ put = [r \in Req |-> IdlePut]
  /\ result = [r \in Req |-> "none"]
  /\ monitor = [n \in Node |-> {}]
  /\ get = [n \in Node |-> IdleGet]
  /\ cursor = [n \in Node |-> [t \in Topic |-> [segment |-> 0, delivered |-> 0]]]
  /\ got = [r \in Req |-> 0]

DataInit == ReplicaInit /\ DataIdle

-----------------------------------------------------------------------------
(* Metadata proposals.                                                     *)

\* REGISTER: ensure_topic picks a leader among the nodes on record by a hash
\* of the topic, itself when there is none.
Register(n, t, i) ==
  /\ \E leader \in IF meta[n].nodes = {} THEN {n} ELSE meta[n].nodes :
       Propose(n, i, [op |-> "CreateTopic", name |-> t, initial_leader |-> leader])
  /\ UNCHANGED <<leases, sync, offsets, wal, position, putVars, monitor, getVars>>

\* upsert_node, for the node itself or for one that joins through it.
UpsertNode(n, m, i) ==
  /\ m \notin meta[n].nodes
  /\ Propose(n, i, [op |-> "UpsertNode", node_id |-> m])
  /\ UNCHANGED <<leases, sync, offsets, wal, position, putVars, monitor, getVars>>

\* The rollover both maybe_rollover and the monitor propose for the segment
\* they counted.  The new leader is the next voter after this node, the node
\* itself while it is the only one: membership is not modelled, so any node.
ProposeRollover(n, t, count, i) ==
  \E next \in Node :
    Propose(n, i, [op |-> "RolloverTopic", name |-> t, new_leader |-> next,
                   sealed_segment_entry_count |-> count])

\* propose_metadata, whose answer may come before the command commits (the
\* wait is cut off by a timeout) and which fails without proposing anything
\* when there is no leader to propose to.
TryRollover(n, t, count) ==
  \/ \E i \in Slot : ProposeRollover(n, t, count, i)
  \/ UNCHANGED replicaVars

MetadataStep ==
  /\ \/ \E i \in Slot : Commit(i)
     \/ \E i \in Slot : Lose(i)
     \/ \E n \in Node : ApplyNext(n)
  /\ UNCHANGED <<leases, sync, offsets, wal, position, putVars, monitor, getVars>>

-----------------------------------------------------------------------------
(* Leases.                                                                 *)

\* update_leases reads the owned topics, then awaits the peer addresses ...
LeaseLoopRead(n) ==
  /\ sync[n] = {}
  /\ sync' = [sync EXCEPT ![n] = {owned_topics(meta[n], n)}]
  /\ UNCHANGED <<replicaVars, leases, offsets, wal, position, putVars, monitor,
                 getVars>>

\* ... and installs what it read, whatever was applied in between.
LeaseLoopInstall(n) ==
  /\ \E expected \in sync[n] : leases' = [leases EXCEPT ![n] = expected]
  /\ sync' = [sync EXCEPT ![n] = {}]
  /\ UNCHANGED <<replicaVars, offsets, wal, position, putVars, monitor, getVars>>

-----------------------------------------------------------------------------
(* PUT.                                                                    *)

\* append_for_topic at node n: the segment and its leader are read from the
\* local replica; the request is served here or forwarded.
PutStart(r, n, t) ==
  LET ts == meta[n].topics[t]
  IN  /\ put[r].pc = Idle
      /\ t \in DOMAIN meta[n].topics
      /\ put' = [put EXCEPT ![r] =
                   [IdlePut EXCEPT
                      !.pc = IF ts.leader_node = n THEN "lease" ELSE "sent",
                      !.origin = n,
                      !.target = ts.leader_node,
                      !.key = <<t, ts.current_segment>>]]
      /\ ts.leader_node = n \/ ts.leader_node \in meta[n].nodes
      /\ UNCHANGED <<replicaVars, leases, sync, offsets, wal, position, result,
                     monitor, getVars>>

\* The same, when the topic or the address of its leader is unknown.
PutRefused(r, n, t) ==
  /\ put[r].pc = Idle
  /\ t \in DOMAIN meta[n].topics =>
       meta[n].topics[t].leader_node \notin meta[n].nodes \cup {n}
  /\ put' = [put EXCEPT ![r].pc = "done"]
  /\ result' = [result EXCEPT ![r] = "err"]
  /\ UNCHANGED <<replicaVars, leases, sync, offsets, wal, position, monitor,
                 getVars>>

\* A step of the handler of r from one program counter to the next.
Goto(r, from, to) ==
  /\ put[r].pc = from
  /\ put' = [put EXCEPT ![r].pc = to]

\* The leader receives the forwarded request.
PutDeliver(r) ==
  /\ Goto(r, "sent", "lease")
  /\ UNCHANGED <<replicaVars, leases, sync, offsets, wal, position, result,
                 monitor, getVars>>

\* forward_append and append_with_retry refresh the leases before they append.
PutReadOwned(r) ==
  /\ put[r].pc = "lease"
  /\ put' = [put EXCEPT ![r] =
               [@ EXCEPT !.pc = "sync",
                         !.expected = owned_topics(meta[put[r].target], put[r].target)]]
  /\ UNCHANGED <<replicaVars, leases, sync, offsets, wal, position, result,
                 monitor, getVars>>

PutInstallLeases(r) ==
  /\ Goto(r, "sync", "check")
  /\ leases' = [leases EXCEPT ![put[r].target] = put[r].expected]
  /\ UNCHANGED <<replicaVars, sync, offsets, wal, position, result, monitor,
                 getVars>>

\* An attempt failed: append_with_retry makes one more, then gives up.
AttemptFailed(r) ==
  put' = [put EXCEPT ![r] = IF @.attempt = 0
                            THEN [@ EXCEPT !.pc = "lease", !.attempt = 1]
                            ELSE [@ EXCEPT !.pc = "reply", !.ok = FALSE]]

\* BucketGuard::lock checks the lease before it waits for the key's mutex.
PutCheckLease(r) ==
  /\ put[r].pc = "check"
  /\ IF put[r].key \in leases[put[r].target]
     THEN put' = [put EXCEPT ![r].pc = "write"]
     ELSE AttemptFailed(r)
  /\ UNCHANGED <<replicaVars, leases, sync, offsets, wal, position, result,
                 monitor, getVars>>

\* Under the mutex the entry is appended; the lease is not looked at again.
PutWrite(r) ==
  /\ Goto(r, "write", "record")
  /\ wal' = [wal EXCEPT ![put[r].target][put[r].key] = Append(@, r)]
  /\ UNCHANGED <<replicaVars, leases, sync, offsets, position, result, monitor,
                 getVars>>

\* Faulty: the failed append left its entry.
BadPutWriteFailsLate(r) ==
  /\ put[r].pc = "write"
  /\ wal' = [wal EXCEPT ![put[r].target][put[r].key] = Append(@, r)]
  /\ AttemptFailed(r)
  /\ UNCHANGED <<replicaVars, leases, sync, offsets, position, result, monitor,
                 getVars>>

\* The engine refuses the append.
PutWriteFails(r) ==
  /\ put[r].pc = "write"
  /\ AttemptFailed(r)
  /\ UNCHANGED <<replicaVars, leases, sync, offsets, wal, position, result,
                 monitor, getVars>>

\* Faulty: the append is not counted.
BadPutRecord(r) ==
  /\ Goto(r, "record", "count")
  /\ UNCHANGED <<replicaVars, leases, sync, offsets, wal, position, result,
                 monitor, getVars>>

\* record_append, after the mutex is released.
PutRecord(r) ==
  /\ Goto(r, "record", "count")
  /\ offsets' = [offsets EXCEPT ![put[r].target][put[r].key] = @ + 1]
  /\ UNCHANGED <<replicaVars, leases, sync, wal, position, result, monitor,
                 getVars>>

\* maybe_rollover: the count is read again, after other appends may have been
\* recorded, and the rollover is proposed whatever segment is current by now.
PutMaybeRollover(r) ==
  LET n == put[r].target
      count == offsets[n][put[r].key]
  IN  /\ put[r].pc = "count"
      /\ put' = [put EXCEPT ![r] = [@ EXCEPT !.pc = "reply", !.ok = TRUE]]
      /\ IF count >= MaxSegmentEntries
         THEN TryRollover(n, put[r].key[1], count)
         ELSE UNCHANGED replicaVars
      /\ UNCHANGED <<leases, sync, offsets, wal, position, result, monitor,
                     getVars>>

\* The client gets the answer, unless it was already told of a timeout.
PutReply(r) ==
  /\ Goto(r, "reply", "done")
  /\ result' = [result EXCEPT ![r] = IF @ # "none" THEN @
                                     ELSE IF put[r].ok THEN "ok" ELSE "err"]
  /\ UNCHANGED <<replicaVars, leases, sync, offsets, wal, position, monitor,
                 getVars>>

\* forward_append_remote gives up after 15 seconds: the request or its answer
\* was lost or is late.  The leader may still be at work.
PutTimeout(r) ==
  /\ put[r].pc \notin {Idle, "done"}
  /\ put[r].origin # put[r].target
  /\ result[r] = "none"
  /\ result' = [result EXCEPT ![r] = "err"]
  /\ UNCHANGED <<replicaVars, leases, sync, offsets, wal, position, put, monitor,
                 getVars>>

-----------------------------------------------------------------------------
(* The rollover monitor.                                                   *)

\* A tick takes the owned segments from the replica ...
MonitorTick(n) ==
  /\ monitor[n] = {}
  /\ monitor' = [monitor EXCEPT ![n] = owned_topics(meta[n], n)]
  /\ UNCHANGED <<replicaVars, leases, sync, offsets, wal, position, putVars,
                 getVars>>

\* ... and checks them one after the other; a failed proposal ends the tick.
MonitorCheck(n, k) ==
  LET count == offsets[n][k]
  IN  /\ k \in monitor[n]
      /\ IF count < MaxSegmentEntries
         THEN /\ monitor' = [monitor EXCEPT ![n] = @ \ {k}]
              /\ UNCHANGED replicaVars
         ELSE \/ /\ \E i \in Slot : ProposeRollover(n, k[1], count, i)
                 /\ monitor' \in {[monitor EXCEPT ![n] = @ \ {k}],
                                  [monitor EXCEPT ![n] = {}]}
              \/ /\ monitor' = [monitor EXCEPT ![n] = {}]
                 /\ UNCHANGED replicaVars
      /\ UNCHANGED <<leases, sync, offsets, wal, position, putVars, getVars>>

-----------------------------------------------------------------------------
(* GET.                                                                    *)

\* read_one_for_topic_shared takes the mutex on the cursors, so that a node
\* serves one GET at a time.
GetStart(n, t) ==
  LET first == IF cursor[n][t].segment = 0 THEN 1 ELSE cursor[n][t].segment
  IN  /\ get[n].pc = Idle
      /\ t \in DOMAIN meta[n].topics
      /\ get' = [get EXCEPT ![n] = [IdleGet EXCEPT !.pc = "loop",
                                                   !.key = <<t, first>>]]
      /\ cursor' = [cursor EXCEPT ![n][t].segment = first]
      /\ UNCHANGED <<replicaVars, leases, sync, offsets, wal, position, putVars,
                     monitor, got>>

NextSegment(n, t) ==
  cursor' = [cursor EXCEPT ![n][t] = [segment |-> @.segment + 1, delivered |-> 0]]

\* Faulty: every read goes to the leader of the open segment.
BadGetRound(n) ==
  LET t  == get[n].key[1]
      ts == meta[n].topics[t]
  IN  /\ get[n].pc = "loop"
      /\ get' = [get EXCEPT ![n] =
                   [pc |-> "sent", key |-> <<t, cursor[n][t].segment>>,
                    leader |-> ts.leader_node, current |-> ts.current_segment,
                    data |-> NoReq]]
      /\ UNCHANGED <<replicaVars, leases, sync, offsets, wal, position, putVars,
                     monitor, cursor, got>>

\* One round of the loop up to the read: skip a segment that is used up, or
\* ask the leader of the cursor's segment for its next entry.
GetRound(n) ==
  LET t   == get[n].key[1]
      cur == cursor[n][t]
      ts  == meta[n].topics[t]
  IN  /\ get[n].pc = "loop"
      /\ IF /\ cur.segment < ts.current_segment
            /\ cur.delivered >= sealed_count(meta[n], t, cur.segment)
         THEN NextSegment(n, t) /\ UNCHANGED get
         ELSE /\ get' = [get EXCEPT ![n] =
                   [pc |-> "sent", key |-> <<t, cur.segment>>,
                    leader |-> IF cur.segment = ts.current_segment
                               THEN ts.leader_node
                               ELSE segment_leader(meta[n], t, cur.segment),
                    current |-> ts.current_segment, data |-> NoReq]]
              /\ UNCHANGED cursor
      /\ UNCHANGED <<replicaVars, leases, sync, offsets, wal, position, putVars,
                     monitor, got>>

\* Faulty: the read does not checkpoint.
BadGetServe(n) ==
  LET m == get[n].leader
      k == get[n].key
  IN  /\ get[n].pc = "sent"
      /\ get' = [get EXCEPT ![n] = [@ EXCEPT !.pc = "reply",
                                             !.data = IF wal[m][k] = <<>> THEN NoReq
                                                      ELSE wal[m][k][1]]]
      /\ UNCHANGED <<replicaVars, leases, sync, offsets, wal, position, putVars,
                     monitor, cursor, got>>

\* Storage::read_one at the leader consumes the entry it returns.
GetServe(n) ==
  LET m == get[n].leader
      k == get[n].key
      next == position[m][k] + 1
  IN  /\ get[n].pc = "sent"
      /\ m = n \/ m \in meta[n].nodes
      /\ IF next <= Len(wal[m][k])
         THEN /\ get' = [get EXCEPT ![n] = [@ EXCEPT !.pc = "reply",
                                                 !.data = wal[m][k][next]]]
              /\ position' = [position EXCEPT ![m][k] = next]
         ELSE /\ get' = [get EXCEPT ![n].pc = "reply"]
              /\ UNCHANGED position
      /\ UNCHANGED <<replicaVars, leases, sync, offsets, wal, putVars, monitor,
                     cursor, got>>

\* Faulty: an empty read of a sealed segment is simply repeated.
BadGetReplyRepeats(n) ==
  /\ get[n].pc = "reply"
  /\ get' = [get EXCEPT ![n] =
               IF get[n].data = NoReq /\ get[n].key[2] < get[n].current
               THEN [IdleGet EXCEPT !.pc = "loop", !.key = get[n].key]
               ELSE IdleGet]
  /\ UNCHANGED <<replicaVars, leases, sync, offsets, wal, position, putVars,
                 monitor, cursor, got>>

\* An entry is returned and counted; no entry in a segment that was sealed at
\* the start of the round moves the cursor on; otherwise the topic is empty.
GetReply(n) ==
  LET t == get[n].key[1]
  IN  /\ get[n].pc = "reply"
      /\ \/ /\ get[n].data # NoReq
            /\ cursor' = [cursor EXCEPT ![n][t].delivered = @ + 1]
            /\ got' = [got EXCEPT ![get[n].data] = @ + 1]
            /\ get' = [get EXCEPT ![n] = IdleGet]
         \/ /\ get[n].data = NoReq
            /\ get[n].key[2] < get[n].current
            /\ NextSegment(n, t)
            /\ get' = [get EXCEPT ![n] = [IdleGet EXCEPT !.pc = "loop",
                                                         !.key = get[n].key]]
            /\ UNCHANGED got
         \/ /\ get[n].data = NoReq
            /\ get[n].key[2] >= get[n].current
            /\ get' = [get EXCEPT ![n] = IdleGet]
            /\ UNCHANGED <<cursor, got>>
      /\ UNCHANGED <<replicaVars, leases, sync, offsets, wal, position, putVars,
                     monitor>>

\* forward_read_remote fails: unknown address, request or answer lost, timeout.
GetFails(n) ==
  /\ get[n].pc \in {"sent", "reply"}
  /\ get[n].leader # n
  /\ get' = [get EXCEPT ![n] = IdleGet]
  /\ UNCHANGED <<replicaVars, leases, sync, offsets, wal, position, putVars,
                 monitor, cursor, got>>

-----------------------------------------------------------------------------
\* A node process restarts.  Entries are on disk, and so are reader positions,
\* of which the engine may persist an earlier one; the replica, leases, counts,
\* cursors and every handler are not.  A request it was serving ends in an
\* error; one still on the network may arrive later.
NodeRestart(n) ==
  /\ Restart(n)
  /\ leases' = [leases EXCEPT ![n] = {}]
  /\ sync' = [sync EXCEPT ![n] = {}]
  /\ offsets' = [offsets EXCEPT ![n] = [k \in Key |-> 0]]
  /\ monitor' = [monitor EXCEPT ![n] = {}]
  /\ put' = [r \in Req |->
               IF put[r].pc \notin {Idle, "sent"} /\ put[r].target = n
               THEN [put[r] EXCEPT !.pc = "done"] ELSE put[r]]
  /\ result' = [r \in Req |->
                  IF /\ \/ put[r].pc # Idle /\ put[r].origin = n
                        \/ put[r].pc \notin {Idle, "sent"} /\ put[r].target = n
                     /\ result[r] = "none"
                  THEN "err" ELSE result[r]]
  /\ get' = [get EXCEPT ![n] = IdleGet]
  /\ cursor' = [cursor EXCEPT ![n] = [t \in Topic |-> [segment |-> 0, delivered |-> 0]]]
  /\ \E back \in [{k \in Key : position[n][k] > 0} -> 0..Cardinality(Req)] :
       /\ \A k \in DOMAIN back : back[k] <= position[n][k]
       /\ position' = [position EXCEPT ![n] =
                         [k \in Key |-> IF k \in DOMAIN back THEN back[k] ELSE @[k]]]
  /\ UNCHANGED <<wal, got>>

-----------------------------------------------------------------------------
HandlePut(r) ==
  \/ PutDeliver(r) \/ PutReadOwned(r) \/ PutInstallLeases(r) \/ PutCheckLease(r)
  \/ PutWrite(r) \/ PutWriteFails(r) \/ PutRecord(r) \/ PutMaybeRollover(r)
  \/ PutReply(r)

PutNext ==
  \E r \in Req :
    \/ \E n \in Node, t \in Topic : PutStart(r, n, t) \/ PutRefused(r, n, t)
    \/ HandlePut(r)
    \/ PutTimeout(r)

LeaseNext == \E n \in Node : LeaseLoopRead(n) \/ LeaseLoopInstall(n)

MonitorNext ==
  \E n \in Node : MonitorTick(n) \/ \E k \in monitor[n] : MonitorCheck(n, k)

HandleGet(n) == GetRound(n) \/ GetServe(n) \/ GetReply(n)

GetNext ==
  \E n \in Node :
    (\E t \in Topic : GetStart(n, t)) \/ HandleGet(n) \/ GetFails(n)

SetupNext ==
  \E n \in Node, i \in Slot :
    (\E t \in Topic : Register(n, t, i)) \/ (\E m \in Node : UpsertNode(n, m, i))

DataNext ==
  \/ MetadataStep
  \/ SetupNext
  \/ PutNext
  \/ LeaseNext
  \/ MonitorNext
  \/ GetNext
  \/ \E n \in Node : NodeRestart(n)

DataSpec == DataInit /\ [][DataNext]_dataVars

\* What the monitor does when a proposal of it goes through.
MonitorProposes(n) ==
  \E k \in monitor[n], i \in Slot :
    ProposeRollover(n, k[1], offsets[n][k], i) /\ MonitorCheck(n, k)

-----------------------------------------------------------------------------
(* Properties.                                                             *)

Stored(n, k) == {wal[n][k][i] : i \in DOMAIN wal[n][k]}

\* Lease fencing: entries are stored under a key only by the node that the
\* committed metadata names as the leader of that segment, so never by two
\* nodes and never in a segment that is not open yet, however stale the
\* replica, the leases or the lease check of the writer were.
OnlyLeaderWrites ==
  \A n \in Node, k \in Key :
    wal[n][k] # <<>> =>
      /\ k[1] \in DOMAIN Committed.topics
      /\ k[2] \in DOMAIN Committed.topics[k[1]].segment_leaders
      /\ Committed.topics[k[1]].segment_leaders[k[2]] = n

\* A GET asks the node that stores the segment: what the reading node's stale
\* replica, read before the request was sent, says of the segment's leader is
\* where every entry of the segment is.
GetAsksTheWriter ==
  \A n, m \in Node :
    get[n].pc \in {"sent", "reply"} /\ wal[m][get[n].key] # <<>>
      => get[n].leader = m

\* An acknowledged PUT is stored, and no PUT is stored twice, whatever
\* append_with_retry, timeouts and restarts did to it.
AckedStoredOnce ==
  \A r \in Req :
    LET copies == {c \in Node \X Key : r \in Stored(c[1], c[2])}
    IN  /\ result[r] = "ok" => copies # {}
        /\ \A c, d \in copies : c = d
        /\ \A c \in copies : \E i \in DOMAIN wal[c[1]][c[2]] :
             \A j \in DOMAIN wal[c[1]][c[2]] : wal[c[1]][c[2]][j] = r => j = i

\* No entry is returned twice between restarts, although every node has a
\* cursor of its own, forgets it, and reads of one segment come from all nodes.
ReturnedAtMostOnce == \A r \in Req : got[r] <= 1 + restarts

\* The counts a rollover seals with never exceed what is in the log: an
\* entry is counted after it was written, and by the node that wrote it.
CountsNeverExceedLog ==
  \A n \in Node, k \in Key : offsets[n][k] <= Len(wal[n][k])

\* A read cursor never runs ahead of the replica it is moved by.
CursorWithinSegments ==
  \A n \in Node : \A t \in Topic :
    cursor[n][t].segment > 1 =>
      /\ t \in DOMAIN meta[n].topics
      /\ cursor[n][t].segment <= meta[n].topics[t].current_segment

\* Every PUT is answered: no order of lease refreshes, retries, rollovers,
\* lost messages and restarts leaves a client waiting.
PutAnswered == \A r \in Req : put[r].pc # Idle ~> result[r] # "none"

\* Every GET ends and gives the mutex on the cursors back, although it holds
\* the mutex over remote reads and walks an unbounded number of segments.
GetEnds == \A n \in Node : []<>(get[n].pc = Idle)

-----------------------------------------------------------------------------
(* What the documentation says of the data plane.                          *)

\* README.md: "Sealed Counts Stable: Entry counts for sealed segments match
\* actual WAL contents".
SealedCountsStable ==
  \A t \in DOMAIN Committed.topics :
    LET ts == Committed.topics[t]
    IN  \A s \in DOMAIN ts.sealed_segments :
          ts.sealed_segments[s] = Len(wal[ts.segment_leaders[s]][<<t, s>>])

\* README.md: "No Writes Past Open Segment: Closed segments remain immutable
\* after rollover".
ClosedSegmentsImmutable ==
  [][\A n \in Node, k \in Key :
       /\ k[1] \in DOMAIN Committed.topics
       /\ k[2] < Committed.topics[k[1]].current_segment
       => wal'[n][k] = wal[n][k]]_dataVars

\* README.md: "Rollover Progress: Segments exceeding the entry threshold
\* eventually roll over" (as long as the bounded log has room): again and again
\* there is no full segment that is still the current one.
RolloverProgress ==
  []<>(\A n \in Node, k \in Key :
         Len(wal[n][k]) >= MaxSegmentEntries =>
           \/ Len(log) = MaxLog
           \/ k[1] \in DOMAIN Committed.topics
              /\ Committed.topics[k[1]].current_segment > k[2])

\* README.md: "Read Progress: Available entries eventually get consumed by
\* readers".
ReadProgress ==
  \A r \in Req :
    result[r] = "ok"
      ~> \E n \in Node, k \in Key : \E i \in 1..position[n][k] : wal[n][k][i] = r
=============================================================================
