--------------------------- MODULE DataPlaneGets ----------------------------
(***************************************************************************)
(* The steps of a GET, and a restart, preserve the invariant of the data   *)
(* plane.                                                                  *)
(***************************************************************************)
EXTENDS MetadataProofs


\* What a step of the GET at node n has to show.
LEMMA GetMovesKeep ==
  ASSUME DataInv, NEW n \in Node,
         UNCHANGED <<replicaVars, leases, sync, offsets, wal, putVars, monitor>>,
         position' \in [Node -> [Key -> Nat]], got' \in [Req -> Nat],
         get' \in [Node -> GetState],
         cursor' \in [Node -> [Topic -> [segment : Nat, delivered : Nat]]],
         \A m \in Node \ {n} : get'[m] = get[m] /\ cursor'[m] = cursor[m],
         GetsRight(n)'
  PROVE  DataInv'
<1>1. MetaMoves
  BY Zenon DEF MetaMoves
<1>2. /\ MetaInv' /\ LeadsKept /\ MetaKept
      /\ MetaInv /\ DataTypeOK /\ LeaseInv /\ GetInv /\ OnceInv
  BY <1>1, MetaMovesKeep, Zenon DEF DataInv
<1>3. UNCHANGED <<leases, sync, offsets, wal, put, result, monitor>>
  BY Zenon DEF putVars
<1>4. DataTypeOK'
  BY <1>2, <1>3, Zenon DEF DataTypeOK
<1>5. LeaseInv' /\ OnceInv'
  BY <1>2, <1>3, LeaseKept, OnceKept, Zenon
<1>6. \A m \in Node \ {n} : GetsRight(m)'
  BY <1>2, GetsRightKept, Zenon DEF GetInv, MetaKept
<1>7. GetInv'
  BY <1>6, Zenon DEF GetInv
<1> QED
  BY <1>2, <1>4, <1>5, <1>7, Zenon DEF DataInv

\* The state of a GET at the head of its loop.
LEMMA LoopTyped ==
  ASSUME NEW k \in Key
  PROVE  LET g == [IdleGet EXCEPT !.pc = "loop", !.key = k]
         IN  g \in GetState /\ g.pc = "loop" /\ g.key = k
<1> DEFINE g1 == [IdleGet EXCEPT !.pc = "loop"]
<1>1. g1 \in GetState /\ g1.pc = "loop"
  BY IdleStates, Zenon DEF GetState
<1> HIDE DEF g1
<1>2. LET g2 == [g1 EXCEPT !.key = k]
      IN  g2 \in GetState /\ g2.pc = "loop" /\ g2.key = k
  BY <1>1, Zenon DEF GetState
<1> QED
  BY <1>2, Zenon DEF g1

\* A step that moves the cursor of topic t at node n to c.
LEMMA CursorTyped ==
  ASSUME DataTypeOK, NEW n \in Node, NEW t \in Topic,
         NEW c \in [segment : Nat, delivered : Nat],
         cursor' = [cursor EXCEPT ![n][t] = c]
  PROVE  /\ cursor' \in [Node -> [Topic -> [segment : Nat, delivered : Nat]]]
         /\ cursor'[n][t] = c
         /\ \A u \in Topic \ {t} : cursor'[n][u] = cursor[n][u]
         /\ \A m \in Node \ {n} : cursor'[m] = cursor[m]
<1> DEFINE Cursors == [Topic -> [segment : Nat, delivered : Nat]]
           cs == [cursor[n] EXCEPT ![t] = c]
<1>1. cursor \in [Node -> Cursors] /\ cursor[n] \in Cursors
  BY Zenon DEF DataTypeOK
<1>2. cs \in Cursors /\ cs[t] = c /\ \A u \in Topic \ {t} : cs[u] = cursor[n][u]
  BY <1>1, Zenon
<1>3. cursor' = [cursor EXCEPT ![n] = cs]
  BY Zenon
<1> HIDE DEF cs, Cursors
<1> QED
  BY <1>1, <1>2, <1>3, Zenon DEF Cursors

LEMMA GetStartStep ==
  ASSUME DataInv, NEW n \in Node, NEW t \in Topic, GetStart(n, t)
  PROVE  DataInv'
<1> DEFINE first == IF cursor[n][t].segment = 0 THEN 1 ELSE cursor[n][t].segment
           g == [IdleGet EXCEPT !.pc = "loop", !.key = <<t, first>>]
<1>1. /\ get[n].pc = Idle /\ t \in DOMAIN meta[n].topics
      /\ get' = [get EXCEPT ![n] = g]
      /\ cursor' = [cursor EXCEPT ![n][t].segment = first]
      /\ UNCHANGED <<replicaVars, leases, sync, offsets, wal, position, putVars,
                     monitor, got>>
  BY Zenon DEF GetStart
<1>2. MetaInv /\ DataTypeOK /\ GetsRight(n)
  BY Zenon DEF DataInv, GetInv
<1>3. meta[n].topics[t].current_segment \in 1..(MaxLog + 1)
  BY <1>1, <1>2, ReplicaLeads, Zenon
<1>4. first \in 1..meta[n].topics[t].current_segment
  BY <1>2, <1>3 DEF GetsRight, DataTypeOK
<1>5. <<t, first>> \in Key
  BY <1>1, <1>2, <1>4, ReplicaLeads, Zenon
<1> HIDE DEF first
<1>6. g \in GetState /\ g.pc = "loop" /\ g.key = <<t, first>>
  BY <1>5, LoopTyped, Zenon
<1> HIDE DEF g
<1>7. get' \in [Node -> GetState] /\ get'[n] = g
  BY <1>1, <1>2, <1>6, Zenon DEF DataTypeOK
<1>8. /\ cursor' \in [Node -> [Topic -> [segment : Nat, delivered : Nat]]]
      /\ cursor'[n][t].segment = first
      /\ \A u \in Topic \ {t} : cursor'[n][u] = cursor[n][u]
      /\ \A m \in Node \ {n} : cursor'[m] = cursor[m]
  <2> DEFINE c == [cursor[n][t] EXCEPT !.segment = first]
  <2>1. first \in Nat /\ cursor[n][t] \in [segment : Nat, delivered : Nat]
    BY <1>2, <1>3, <1>4 DEF DataTypeOK
  <2>2. c \in [segment : Nat, delivered : Nat] /\ c.segment = first
    BY <2>1, Zenon
  <2>3. cursor' = [cursor EXCEPT ![n][t] = c]
    BY <1>1, Zenon
  <2> HIDE DEF c
  <2> QED
    BY <1>2, <2>2, <2>3, CursorTyped, Zenon
<1>9. meta' = meta
  BY <1>1, Zenon DEF replicaVars
<1>10. GetsRight(n)'
  <2>1. g.pc = "loop" /\ g.key[1] = t
    BY <1>6
  <2>2. ASSUME NEW u \in Topic, cursor'[n][u].segment # 0
        PROVE  /\ u \in DOMAIN meta[n].topics
               /\ cursor'[n][u].segment <= meta[n].topics[u].current_segment
    BY <1>1, <1>2, <1>3, <1>4, <1>8, <2>2 DEF GetsRight
  <2>3. cursor'[n][g.key[1]].segment # 0
    BY <1>4, <1>8, <2>1, <1>3
  <2> QED
    BY <1>7, <1>9, <2>1, <2>2, <2>3, Zenon DEF GetsRight
<1>12. \A m \in Node \ {n} : get'[m] = get[m] /\ cursor'[m] = cursor[m]
  BY <1>1, <1>2, <1>8, Zenon DEF DataTypeOK
<1>13. position' \in [Node -> [Key -> Nat]] /\ got' \in [Req -> Nat]
  BY <1>1, <1>2, Zenon DEF DataTypeOK
<1> QED
  BY <1>1, <1>7, <1>8, <1>10, <1>12, <1>13, GetMovesKeep, Zenon

LEMMA GetFailsStep ==
  ASSUME DataInv, NEW n \in Node, GetFails(n)
  PROVE  DataInv'
<1>1. /\ get' = [get EXCEPT ![n] = IdleGet]
      /\ UNCHANGED <<replicaVars, leases, sync, offsets, wal, position, putVars,
                     monitor, cursor, got>>
  BY Zenon DEF GetFails
<1>2. MetaInv /\ DataTypeOK /\ GetsRight(n)
  BY Zenon DEF DataInv, GetInv
<1>3. IdleGet \in GetState /\ IdleGet.pc = Idle
  BY IdleStates, Zenon DEF IdleGet
<1>4. /\ get' \in [Node -> GetState] /\ get'[n].pc = Idle
      /\ \A m \in Node \ {n} : get'[m] = get[m] /\ cursor'[m] = cursor[m]
  BY <1>1, <1>2, <1>3, Zenon DEF DataTypeOK
<1>5. meta' = meta
  BY <1>1, Zenon DEF replicaVars
<1>6. GetsRight(n)'
  BY <1>1, <1>2, <1>4, <1>5, Zenon DEF GetsRight, Idle
<1>9. /\ position' \in [Node -> [Key -> Nat]] /\ got' \in [Req -> Nat]
      /\ cursor' \in [Node -> [Topic -> [segment : Nat, delivered : Nat]]]
  BY <1>1, <1>2, Zenon DEF DataTypeOK
<1> QED
  BY <1>1, <1>4, <1>6, <1>9, GetMovesKeep, Zenon

LEMMA GetRoundStep ==
  ASSUME DataInv, NEW n \in Node, GetRound(n)
  PROVE  DataInv'
<1>1. PICK t \in Topic : t = get[n].key[1]
  BY KeyFacts, Zenon DEF DataInv, DataTypeOK, GetState
<1> DEFINE cur == cursor[n][t]
           ts  == meta[n].topics[t]
<1>2. /\ get[n].pc = "loop"
      /\ UNCHANGED <<replicaVars, leases, sync, offsets, wal, position, putVars,
                     monitor, got>>
  BY Zenon DEF GetRound
<1>3. MetaInv /\ DataTypeOK /\ GetsRight(n)
  BY Zenon DEF DataInv, GetInv
<1>4. /\ cur \in [segment : Nat, delivered : Nat] /\ cur.segment # 0
      /\ t \in DOMAIN meta[n].topics
      /\ cur.segment <= ts.current_segment
  BY <1>1, <1>2, <1>3, Zenon DEF GetsRight, DataTypeOK, Idle
<1>5. /\ ts.current_segment \in 1..(MaxLog + 1)
      /\ ts.leader_node = ts.segment_leaders[ts.current_segment]
      /\ \A s \in 1..ts.current_segment :
           /\ ts.segment_leaders[s] \in Node
           /\ s \in DOMAIN ts.segment_leaders
           /\ <<t, s>> \in Key
           /\ Leads(ts.segment_leaders[s], <<t, s>>)
  BY <1>3, <1>4, ReplicaLeads, Zenon
<1>6. /\ meta' = meta /\ history' = history
      /\ position' \in [Node -> [Key -> Nat]] /\ got' \in [Req -> Nat]
  BY <1>2, <1>3, Zenon DEF replicaVars, DataTypeOK
<1>9. PICK seg \in Nat, top \in Nat :
        /\ seg = cur.segment /\ top = ts.current_segment
        /\ seg # 0 /\ seg <= top
  <2>1. ts.current_segment \in Nat
    <3>1. ts.current_segment \in 1..(MaxLog + 1)
      BY <1>5, Zenon
    <3> QED
      BY <3>1, BoundsAssumption
  <2>2. cur.segment \in Nat /\ cur.segment # 0 /\ cur.segment <= ts.current_segment
    BY <1>4, Zenon
  <2> QED
    BY <2>1, <2>2, Zenon
<1>7. CASE /\ cur.segment < ts.current_segment
           /\ NextSegment(n, t) /\ UNCHANGED get
  <2> DEFINE c == [segment |-> cur.segment + 1, delivered |-> 0]
  <2>1. cursor' = [cursor EXCEPT ![n][t] = c]
    BY <1>7, Zenon DEF NextSegment
  <2>2. c \in [segment : Nat, delivered : Nat] /\ c.segment = cur.segment + 1
    BY <1>4
  <2> HIDE DEF c
  <2>3. /\ cursor' \in [Node -> [Topic -> [segment : Nat, delivered : Nat]]]
        /\ cursor'[n][t] = c
        /\ \A u \in Topic \ {t} : cursor'[n][u] = cursor[n][u]
        /\ \A m \in Node \ {n} : cursor'[m] = cursor[m]
    BY <1>3, <2>1, <2>2, CursorTyped, Zenon
  <2>4. c.segment <= ts.current_segment /\ c.segment # 0
    BY <1>7, <1>9, <2>2
  <2>5. GetsRight(n)'
    BY <1>1, <1>2, <1>3, <1>4, <1>6, <1>7, <2>3, <2>4, Zenon DEF GetsRight, Idle
  <2>8. get' \in [Node -> GetState] /\ \A m \in Node \ {n} : get'[m] = get[m]
    BY <1>3, <1>7, Zenon DEF DataTypeOK
  <2> QED
    BY <1>2, <1>6, <2>3, <2>5, <2>8, GetMovesKeep, Zenon
<1>8. CASE /\ get' = [get EXCEPT ![n] =
                   [pc |-> "sent", key |-> <<t, cur.segment>>,
                    leader |-> IF cur.segment = ts.current_segment
                               THEN ts.leader_node
                               ELSE segment_leader(meta[n], t, cur.segment),
                    current |-> ts.current_segment, data |-> NoReq]]
           /\ UNCHANGED cursor
  <2>1. PICK s \in 1..ts.current_segment : s = cur.segment
    <3>1. seg \in 1..top
      BY <1>9
    <3> QED
      BY <1>9, <3>1, Zenon
  <2>2. PICK l \in Node : l = ts.segment_leaders[s]
    BY <1>5, Zenon
  <2>3. (IF cur.segment = ts.current_segment THEN ts.leader_node
         ELSE segment_leader(meta[n], t, cur.segment)) = l
    BY <1>4, <1>5, <2>1, <2>2, Zenon DEF segment_leader
  <2>4. PICK k \in Key : k = <<t, s>>
    BY <1>5, Zenon
  <2>5. PICK c \in Nat : c = ts.current_segment
    BY <1>9, Zenon
  <2> DEFINE g == [pc |-> "sent", key |-> k, leader |-> l, current |-> c, data |-> NoReq]
  <2>6. get' = [get EXCEPT ![n] = g]
    BY <1>8, <2>1, <2>3, <2>4, <2>5, Zenon
  <2>7. /\ g \in GetState /\ g.pc = "sent" /\ g.key = k /\ g.leader = l
        /\ g.current = c /\ g.data = NoReq
    BY Zenon DEF GetState
  <2> HIDE DEF g
  <2>8. /\ get' \in [Node -> GetState] /\ get'[n] = g
        /\ \A m \in Node \ {n} : get'[m] = get[m]
    BY <1>3, <2>6, <2>7, Zenon DEF DataTypeOK
  <2>9. Leads(l, k)'
    BY <1>5, <1>6, <2>2, <2>4, Zenon DEF Leads, Committed
  <2>10. k[1] = t /\ k[2] = s
    BY <2>4, Zenon
  <2>11. GetsRight(n)'
    <3>1. \A u \in Topic : cursor'[n][u].segment # 0 =>
            /\ u \in DOMAIN meta'[n].topics
            /\ cursor'[n][u].segment <= meta'[n].topics[u].current_segment
      BY <1>3, <1>6, <1>8, Zenon DEF GetsRight
    <3>2. cursor'[n][k[1]].segment = s /\ s # 0
      BY <1>8, <2>1, <2>10, <1>4, Zenon
    <3>3. c <= meta'[n].topics[k[1]].current_segment
      BY <1>6, <2>5, <2>10
    <3> QED
      BY <2>7, <2>8, <2>9, <2>10, <3>1, <3>2, <3>3, Zenon DEF GetsRight
  <2>14. /\ cursor' \in [Node -> [Topic -> [segment : Nat, delivered : Nat]]]
         /\ \A m \in Node \ {n} : cursor'[m] = cursor[m]
    BY <1>3, <1>8, Zenon DEF DataTypeOK
  <2> QED
    BY <1>2, <1>6, <2>8, <2>11, <2>14, GetMovesKeep, Zenon
<1> QED
  BY <1>1, <1>7, <1>8, Zenon DEF GetRound

LEMMA GetServeStep ==
  ASSUME DataInv, NEW n \in Node, GetServe(n)
  PROVE  DataInv'
<1>1. MetaInv /\ DataTypeOK /\ GetsRight(n)
  BY Zenon DEF DataInv, GetInv
<1>2. get[n] \in GetState /\ get[n].pc = "sent" /\ get[n].data = NoReq
  BY <1>1, Zenon DEF DataTypeOK, GetServe, GetsRight
<1>3. PICK m \in Node : m = get[n].leader
  BY <1>2, Zenon DEF GetState
<1>4. PICK k \in Key : k = get[n].key
  BY <1>2, Zenon DEF GetState
<1>5. PICK next \in Nat : next = position[m][k] + 1
  BY <1>1 DEF DataTypeOK
<1>6. UNCHANGED <<replicaVars, leases, sync, offsets, wal, putVars, monitor, cursor, got>>
  BY Zenon DEF GetServe
<1>7. /\ meta' = meta /\ history' = history
      /\ cursor' \in [Node -> [Topic -> [segment : Nat, delivered : Nat]]]
      /\ got' \in [Req -> Nat]
  BY <1>1, <1>6, Zenon DEF replicaVars, DataTypeOK
\* The answer comes from the node, and for the segment, that were asked.
<1>8. ASSUME NEW g \in GetState, get' = [get EXCEPT ![n] = g], g.pc = "reply",
             g.key = get[n].key, g.leader = get[n].leader, g.current = get[n].current
      PROVE  /\ get' \in [Node -> GetState]
             /\ \A a \in Node \ {n} : get'[a] = get[a] /\ cursor'[a] = cursor[a]
             /\ GetsRight(n)'
  <2>1. /\ get' \in [Node -> GetState] /\ get'[n] = g
        /\ \A a \in Node \ {n} : get'[a] = get[a] /\ cursor'[a] = cursor[a]
    BY <1>1, <1>6, <1>8, Zenon DEF DataTypeOK
  <2>2. Leads(m, k)'
    BY <1>1, <1>2, <1>3, <1>4, <1>7, Zenon DEF GetsRight, Leads, Committed
  <2>3. get'[n].leader = m /\ get'[n].key = k /\ get'[n].pc = "reply"
    BY <1>3, <1>4, <1>8, <2>1, Zenon
  <2> QED
    BY <1>1, <1>2, <1>4, <1>6, <1>7, <1>8, <2>1, <2>2, <2>3, Zenon DEF GetsRight, Idle
<1>9. CASE /\ next <= Len(wal[m][k])
           /\ get' = [get EXCEPT ![n] = [@ EXCEPT !.pc = "reply", !.data = wal[m][k][next]]]
           /\ position' = [position EXCEPT ![m][k] = next]
  <2>1. next \in DOMAIN wal[m][k] /\ wal[m][k] \in Seq(Req)
    BY <1>1, <1>5, <1>9 DEF DataTypeOK
  <2>2. PICK e \in Req : e = wal[m][k][next]
    BY <2>1
  <2> DEFINE g1 == [get[n] EXCEPT !.pc = "reply"]
             g  == [g1 EXCEPT !.data = e]
  <2>3. /\ g1 \in GetState /\ g1.pc = "reply" /\ g1.key = get[n].key
        /\ g1.leader = get[n].leader /\ g1.current = get[n].current
    BY <1>2, Zenon DEF GetState
  <2>4. get' = [get EXCEPT ![n] = g]
    BY <1>9, <2>2, Zenon
  <2> HIDE DEF g1
  <2>5. /\ g \in GetState /\ g.pc = "reply" /\ g.key = get[n].key
        /\ g.leader = get[n].leader /\ g.current = get[n].current /\ g.data = e
    BY <2>3, Zenon DEF GetState
  <2> HIDE DEF g
  <2>7. position' \in [Node -> [Key -> Nat]]
    BY <1>1, <1>9, Zenon DEF DataTypeOK
  <2> QED
    BY <1>6, <1>7, <1>8, <2>4, <2>5, <2>7, GetMovesKeep, Zenon
<1>10. CASE get' = [get EXCEPT ![n].pc = "reply"] /\ UNCHANGED position
  <2> DEFINE g == [get[n] EXCEPT !.pc = "reply"]
  <2>1. /\ g \in GetState /\ g.pc = "reply" /\ g.key = get[n].key /\ g.data = NoReq
        /\ g.leader = get[n].leader /\ g.current = get[n].current
    BY <1>2, Zenon DEF GetState
  <2>2. get' = [get EXCEPT ![n] = g]
    BY <1>10, Zenon
  <2> HIDE DEF g
  <2>5. position' \in [Node -> [Key -> Nat]]
    BY <1>1, <1>10, Zenon DEF DataTypeOK
  <2> QED
    BY <1>6, <1>7, <1>8, <2>1, <2>2, <2>5, GetMovesKeep, Zenon
<1> QED
  BY <1>3, <1>4, <1>5, <1>9, <1>10, Zenon DEF GetServe

LEMMA GetReplyStep ==
  ASSUME DataInv, NEW n \in Node, GetReply(n)
  PROVE  DataInv'
<1>1. MetaInv /\ DataTypeOK /\ GetsRight(n)
  BY Zenon DEF DataInv, GetInv
<1>2. get[n] \in GetState /\ get[n].pc = "reply"
  BY <1>1, Zenon DEF DataTypeOK, GetReply
<1>3. PICK k \in Key : k = get[n].key
  BY <1>2, Zenon DEF GetState
<1>4. PICK t \in Topic : t = k[1]
  BY KeyFacts, Zenon
<1>5. UNCHANGED <<replicaVars, leases, sync, offsets, wal, position, putVars, monitor>>
  BY Zenon DEF GetReply
<1>6. meta' = meta /\ position' \in [Node -> [Key -> Nat]]
  BY <1>1, <1>5, Zenon DEF replicaVars, DataTypeOK
<1>7. /\ cursor[n][t] \in [segment : Nat, delivered : Nat]
      /\ cursor[n][t].segment # 0 /\ cursor[n][t].segment = k[2]
      /\ get[n].current <= meta[n].topics[t].current_segment
      /\ t \in DOMAIN meta[n].topics
      /\ cursor[n][t].segment <= meta[n].topics[t].current_segment
  BY <1>1, <1>2, <1>3, <1>4, Zenon DEF GetsRight, DataTypeOK, Idle
<1>8. meta[n].topics[t].current_segment \in Nat /\ get[n].current \in Nat
  <2>1. meta[n].topics[t].current_segment \in 1..(MaxLog + 1)
    BY <1>1, <1>7, ReplicaLeads, Zenon
  <2>2. get[n].current \in Nat
    BY <1>2, Zenon DEF GetState
  <2> QED
    BY <2>1, <2>2, BoundsAssumption
<1>9. IdleGet \in GetState /\ IdleGet.pc = Idle
  BY IdleStates, Zenon DEF IdleGet
<1>10. ASSUME get' = [get EXCEPT ![n] = IdleGet]
       PROVE  /\ get' \in [Node -> GetState] /\ get'[n].pc = Idle
              /\ \A a \in Node \ {n} : get'[a] = get[a]
  BY <1>1, <1>9, <1>10, Zenon DEF DataTypeOK
<1>11. CASE /\ get[n].data # NoReq
            /\ cursor' = [cursor EXCEPT ![n][t].delivered = @ + 1]
            /\ got' = [got EXCEPT ![get[n].data] = @ + 1]
            /\ get' = [get EXCEPT ![n] = IdleGet]
  <2>1. PICK e \in Req : e = get[n].data
    BY <1>2, <1>11, Zenon DEF GetState
  <2> DEFINE c == [cursor[n][t] EXCEPT !.delivered = @ + 1]
  <2>2. c \in [segment : Nat, delivered : Nat] /\ c.segment = cursor[n][t].segment
    BY <1>7
  <2>3. cursor' = [cursor EXCEPT ![n][t] = c]
    BY <1>11, Zenon
  <2> HIDE DEF c
  <2>4. /\ cursor' \in [Node -> [Topic -> [segment : Nat, delivered : Nat]]]
        /\ cursor'[n][t] = c
        /\ \A u \in Topic \ {t} : cursor'[n][u] = cursor[n][u]
        /\ \A a \in Node \ {n} : cursor'[a] = cursor[a]
    BY <1>1, <2>2, <2>3, CursorTyped, Zenon
  <2>5. GetsRight(n)'
    BY <1>1, <1>6, <1>10, <1>11, <2>2, <2>4, Zenon DEF GetsRight, Idle
  <2>6. got' \in [Req -> Nat]
    BY <1>1, <1>11, <2>1 DEF DataTypeOK
  <2> QED
    BY <1>5, <1>6, <1>10, <1>11, <2>4, <2>5, <2>6, GetMovesKeep, Zenon
<1>13. CASE /\ get[n].data = NoReq
            /\ get[n].key[2] < get[n].current
            /\ NextSegment(n, t)
            /\ get' = [get EXCEPT ![n] = [IdleGet EXCEPT !.pc = "loop", !.key = get[n].key]]
            /\ UNCHANGED got
  <2> DEFINE c == [segment |-> cursor[n][t].segment + 1, delivered |-> 0]
             g == [IdleGet EXCEPT !.pc = "loop", !.key = k]
  <2>1. cursor' = [cursor EXCEPT ![n][t] = c]
    BY <1>13, Zenon DEF NextSegment
  <2>2. c \in [segment : Nat, delivered : Nat] /\ c.segment = cursor[n][t].segment + 1
    BY <1>7
  <2>3. g \in GetState /\ g.pc = "loop" /\ g.key = k
    BY LoopTyped, Zenon
  <2>4. get' = [get EXCEPT ![n] = g]
    BY <1>3, <1>13, Zenon
  <2> HIDE DEF c, g
  <2>5. /\ cursor' \in [Node -> [Topic -> [segment : Nat, delivered : Nat]]]
        /\ cursor'[n][t] = c
        /\ \A u \in Topic \ {t} : cursor'[n][u] = cursor[n][u]
        /\ \A a \in Node \ {n} : cursor'[a] = cursor[a]
    BY <1>1, <2>1, <2>2, CursorTyped, Zenon
  <2>6. /\ get' \in [Node -> GetState] /\ get'[n] = g
        /\ \A a \in Node \ {n} : get'[a] = get[a]
    BY <1>1, <2>3, <2>4, Zenon DEF DataTypeOK
  <2>7. c.segment <= meta[n].topics[t].current_segment /\ c.segment # 0
    BY <1>3, <1>7, <1>8, <1>13, <2>2
  <2>8. GetsRight(n)'
    <3>1. \A u \in Topic : cursor'[n][u].segment # 0 =>
            /\ u \in DOMAIN meta'[n].topics
            /\ cursor'[n][u].segment <= meta'[n].topics[u].current_segment
      BY <1>1, <1>6, <1>7, <2>5, <2>7, Zenon DEF GetsRight
    <3>2. cursor'[n][get'[n].key[1]].segment # 0 /\ get'[n].pc = "loop"
      BY <1>4, <2>3, <2>5, <2>6, <2>7, Zenon
    <3> QED
      BY <3>1, <3>2, Zenon DEF GetsRight
  <2>9. got' \in [Req -> Nat]
    BY <1>1, <1>13, Zenon DEF DataTypeOK
  <2> QED
    BY <1>5, <1>6, <2>5, <2>6, <2>8, <2>9, GetMovesKeep, Zenon
<1>14. CASE /\ get[n].data = NoReq
            /\ get' = [get EXCEPT ![n] = IdleGet]
            /\ UNCHANGED <<cursor, got>>
  <2>1. got' \in [Req -> Nat]
    BY <1>1, <1>14, Zenon DEF DataTypeOK
  <2>2. /\ cursor' \in [Node -> [Topic -> [segment : Nat, delivered : Nat]]]
        /\ \A a \in Node \ {n} : cursor'[a] = cursor[a]
    BY <1>1, <1>14, Zenon DEF DataTypeOK
  <2>3. GetsRight(n)'
    BY <1>1, <1>6, <1>10, <1>14, Zenon DEF GetsRight, Idle
  <2> QED
    BY <1>5, <1>6, <1>10, <1>14, <2>1, <2>2, <2>3, GetMovesKeep, Zenon
<1> QED
  BY <1>3, <1>4, <1>11, <1>13, <1>14, Zenon DEF GetReply

-----------------------------------------------------------------------------
(* A restart.                                                              *)

LEMMA NodeRestartStep ==
  ASSUME DataInv, NEW n \in Node, NodeRestart(n)
  PROVE  DataInv'
<1>1. /\ MetaInv /\ DataTypeOK /\ LeaseInv /\ GetInv /\ OnceInv
      /\ Restart(n)
  BY Zenon DEF DataInv, NodeRestart
<1>2. /\ MetaInv' /\ LeadsKept /\ restarts \in Nat /\ restarts' = restarts + 1
      /\ \A m \in Node \ {n} : meta'[m] = meta[m]
  BY <1>1, RestartKeeps, Zenon
<1>3. /\ leases' = [leases EXCEPT ![n] = {}]
      /\ sync' = [sync EXCEPT ![n] = {}]
      /\ offsets' = [offsets EXCEPT ![n] = [k \in Key |-> 0]]
      /\ monitor' = [monitor EXCEPT ![n] = {}]
      /\ get' = [get EXCEPT ![n] = IdleGet]
      /\ cursor' = [cursor EXCEPT ![n] = [t \in Topic |-> [segment |-> 0, delivered |-> 0]]]
      /\ UNCHANGED <<wal, got>>
  BY Zenon DEF NodeRestart
<1>4. \A r \in Req :
        /\ put'[r] = [put[r] EXCEPT !.pc = "done"] \/ put'[r] = put[r]
        /\ result'[r] \in {"err", result[r]}
  BY Zenon DEF NodeRestart
<1>5. put' \in [Req -> PutState] /\ result' \in [Req -> {"none", "ok", "err"}]
  <2>1. ASSUME NEW r \in Req
        PROVE  put'[r] \in PutState /\ result'[r] \in {"none", "ok", "err"}
    <3>1. put[r] \in PutState /\ result[r] \in {"none", "ok", "err"}
      BY <1>1, Zenon DEF DataTypeOK
    <3>2. [put[r] EXCEPT !.pc = "done"] \in PutState
      BY <3>1, Zenon DEF PutState, PutPC
    <3> QED
      BY <1>4, <3>1, <3>2, Zenon
  <2>2. /\ put' = [r \in Req |-> put'[r]]
        /\ result' = [r \in Req |-> result'[r]]
    BY Zenon DEF NodeRestart
  <2> QED
    BY <2>1, <2>2, Zenon
<1>6. \A r \in Req : /\ put'[r].target = put[r].target /\ put'[r].key = put[r].key
                     /\ put'[r].expected = put[r].expected /\ put'[r].ok = put[r].ok
                     /\ put'[r].pc \in {"done", put[r].pc}
  <2> SUFFICES ASSUME NEW r \in Req
               PROVE  /\ put'[r].target = put[r].target /\ put'[r].key = put[r].key
                      /\ put'[r].expected = put[r].expected /\ put'[r].ok = put[r].ok
                      /\ put'[r].pc \in {"done", put[r].pc}
    BY Zenon
  <2>1. put[r] \in PutState
    BY <1>1, Zenon DEF DataTypeOK
  <2> QED
    BY <1>4, <2>1, Zenon DEF PutState
<1>7. /\ position' \in [Node -> [Key -> Nat]]
      /\ \A m \in Node, k \in Key : position'[m][k] <= position[m][k]
  <2>1. PICK back \in [{k \in Key : position[n][k] > 0} -> 0..Cardinality(Req)] :
          /\ \A k \in DOMAIN back : back[k] <= position[n][k]
          /\ position' = [position EXCEPT ![n] =
                            [k \in Key |-> IF k \in DOMAIN back THEN back[k] ELSE @[k]]]
    BY Zenon DEF NodeRestart
  <2> DEFINE p == [k \in Key |-> IF k \in DOMAIN back THEN back[k] ELSE position[n][k]]
  <2>2. position[n] \in [Key -> Nat] /\ position \in [Node -> [Key -> Nat]]
    BY <1>1, Zenon DEF DataTypeOK
  <2>3. \A k \in DOMAIN back : back[k] \in Nat
    OBVIOUS
  <2>4. p \in [Key -> Nat] /\ \A k \in Key : p[k] <= position[n][k]
    BY <2>1, <2>2, <2>3
  <2>5. position' = [position EXCEPT ![n] = p]
    BY <2>1, Zenon
  <2> HIDE DEF p
  <2> QED
    BY <2>2, <2>4, <2>5
<1>8. DataTypeOK'
  BY <1>1, <1>3, <1>5, <1>7, IdleStates, Zenon DEF DataTypeOK
<1>9. LeaseInv'
  <2>1. /\ \A m \in Node : leases'[m] \subseteq leases[m] /\ sync'[m] \subseteq sync[m]
        /\ wal' = wal
    BY <1>1, <1>3, Zenon DEF DataTypeOK
  <2>2. \A m \in Node : \A k \in leases'[m] : Leads(m, k)'
    BY <1>1, <1>2, <2>1, Zenon DEF LeaseInv, LeadsKept
  <2>3. \A m \in Node : \A keys \in sync'[m] : \A k \in keys : Leads(m, k)'
    BY <1>1, <1>2, <2>1, Zenon DEF LeaseInv, LeadsKept
  <2>4. \A r \in Req : \A k \in put'[r].expected : Leads(put[r].target, k)'
    BY <1>1, <1>2, <1>6, Zenon DEF LeaseInv, LeadsKept
  <2>5. \A r \in Req : put'[r].pc = "write" => Leads(put[r].target, put[r].key)'
    BY <1>1, <1>2, <1>6 DEF LeaseInv, LeadsKept
  <2>6. \A m \in Node, k \in Key : wal[m][k] # <<>> => Leads(m, k)'
    BY <1>1, <1>2, Zenon DEF LeaseInv, LeadsKept
  <2> QED
    BY <1>6, <2>1, <2>2, <2>3, <2>4, <2>5, <2>6, Zenon DEF LeaseInv
<1>10. GetInv'
  <2>1. ASSUME NEW m \in Node \ {n}
        PROVE  GetsRight(m)'
    <3>1. /\ GetsRight(m) /\ get'[m] = get[m] /\ cursor'[m] = cursor[m]
          /\ Extends(meta[m], meta'[m])
      BY <1>1, <1>2, <1>3, ExtendsReflexive, Zenon
           DEF GetInv, DataTypeOK, MetaInv, ReplicaInv, ReplicaTypeOK
    <3> QED
      BY <1>1, <1>2, <3>1, GetsRightKept, Zenon
  <2>2. /\ get'[n].pc = Idle /\ \A t \in Topic : cursor'[n][t].segment = 0
    BY <1>1, <1>3, Zenon DEF DataTypeOK, IdleGet
  <2>3. GetsRight(n)'
    BY <2>2, Zenon DEF GetsRight, Idle
  <2> QED
    BY <2>1, <2>3, Zenon DEF GetInv
<1>11. OnceInv'
  <2>1. \A r \in Req : put'[r].pc \in Unwritten => put[r].pc \in Unwritten
    BY <1>6, Zenon DEF Unwritten, Idle
  <2>2. \A r \in Req : Wrote(put'[r]) => Wrote(put[r])
    BY <1>6, Zenon DEF Wrote
  <2>3. \A r \in Req : result'[r] = "ok" => result[r] = "ok"
    BY <1>4, Zenon
  <2>4. \A m, k : Stored(m, k)' = Stored(m, k)
    BY <1>3, StoredKept, Zenon
  <2>5. OneCopy'
    BY <1>1, <1>3 DEF OnceInv, OneCopy
  <2> QED
    BY <1>1, <1>6, <2>1, <2>2, <2>3, <2>4, <2>5, Zenon DEF OnceInv
<1> QED
  BY <1>2, <1>8, <1>9, <1>10, <1>11, Zenon DEF DataInv

-----------------------------------------------------------------------------
(* What a GET does to what is returned.                                    *)

\* A GET that does not come to hold an entry.
LEMMA GetIdles ==
  ASSUME NEW n \in Node, UNCHANGED <<got, wal, position, restarts>>,
         \A m \in Node \ {n} : get'[m] = get[m],
         get'[n].pc = "reply" => get'[n].data \notin Req \/ get'[n] = get[n]
  PROVE  ReadStep
BY Zenon DEF ReadStep, Idles, Holding

LEMMA GetStartReads ==
  ASSUME DataInv, NEW n \in Node, NEW t \in Topic, GetStart(n, t)
  PROVE  ReadStep
<1> DEFINE first == IF cursor[n][t].segment = 0 THEN 1 ELSE cursor[n][t].segment
           g1 == [IdleGet EXCEPT !.pc = "loop"]
           g  == [g1 EXCEPT !.key = <<t, first>>]
<1>1. /\ get' = [get EXCEPT ![n] = g]
      /\ UNCHANGED <<replicaVars, wal, position, got>>
  BY Zenon DEF GetStart
<1> HIDE DEF first
<1>2. g1 \in GetState /\ g1.pc = "loop"
  BY IdleStates, Zenon DEF GetState
<1> HIDE DEF g1
<1>3. g.pc = "loop"
  BY <1>2, Zenon DEF GetState
<1> HIDE DEF g
<1>4. get'[n] = g /\ \A m \in Node \ {n} : get'[m] = get[m]
  BY <1>1, Zenon DEF DataInv, DataTypeOK
<1>5. restarts' = restarts
  BY <1>1, Zenon DEF replicaVars
<1> QED
  BY <1>1, <1>3, <1>4, <1>5, GetIdles, Zenon

LEMMA GetFailsReads ==
  ASSUME DataInv, NEW n \in Node, GetFails(n)
  PROVE  ReadStep
<1>1. get' = [get EXCEPT ![n] = IdleGet] /\ UNCHANGED <<replicaVars, wal, position, got>>
  BY Zenon DEF GetFails
<1>2. get'[n].pc # "reply" /\ \A m \in Node \ {n} : get'[m] = get[m]
  BY <1>1, Zenon DEF DataInv, DataTypeOK, IdleGet, Idle
<1>3. restarts' = restarts
  BY <1>1, Zenon DEF replicaVars
<1> QED
  BY <1>1, <1>2, <1>3, GetIdles, Zenon

LEMMA GetRoundReads ==
  ASSUME DataInv, NEW n \in Node, GetRound(n)
  PROVE  ReadStep
<1>1. UNCHANGED <<replicaVars, wal, position, got>>
  BY Zenon DEF GetRound
<1>2. restarts' = restarts
  BY <1>1, Zenon DEF replicaVars
<1>3. get' = get \/ \E g : g.pc = "sent" /\ get' = [get EXCEPT ![n] = g]
  BY Zenon DEF GetRound
<1>4. /\ get'[n].pc # "reply" \/ get'[n] = get[n]
      /\ \A m \in Node \ {n} : get'[m] = get[m]
  BY <1>3, Zenon DEF DataInv, DataTypeOK
<1> QED
  BY <1>1, <1>2, <1>4, GetIdles, Zenon

LEMMA GetServeReads ==
  ASSUME DataInv, NEW n \in Node, GetServe(n)
  PROVE  ReadStep
<1>1. DataTypeOK /\ get[n] \in GetState /\ get[n].pc = "sent" /\ get[n].data = NoReq
  BY Zenon DEF DataInv, GetInv, DataTypeOK, GetServe, GetsRight
<1>2. PICK m \in Node, k \in Key : m = get[n].leader /\ k = get[n].key
  BY <1>1, Zenon DEF GetState
<1>3. PICK next \in Nat : next = position[m][k] + 1
  BY <1>1 DEF DataTypeOK
<1>4. UNCHANGED <<replicaVars, wal, got>>
  BY Zenon DEF GetServe
<1>5. restarts' = restarts
  BY <1>4, Zenon DEF replicaVars
<1>6. CASE /\ next <= Len(wal[m][k])
           /\ get' = [get EXCEPT ![n] = [@ EXCEPT !.pc = "reply", !.data = wal[m][k][next]]]
           /\ position' = [position EXCEPT ![m][k] = next]
  <2>1. next \in DOMAIN wal[m][k] /\ wal[m][k] \in Seq(Req)
    BY <1>1, <1>3, <1>6 DEF DataTypeOK
  <2>2. PICK e \in Req : e = wal[m][k][next]
    BY <2>1
  <2> DEFINE g1 == [get[n] EXCEPT !.pc = "reply"]
             g  == [g1 EXCEPT !.data = e]
  <2>3. g1 \in GetState /\ g1.pc = "reply"
    BY <1>1, Zenon DEF GetState
  <2>4. get' = [get EXCEPT ![n] = g]
    BY <1>6, <2>2, Zenon
  <2> HIDE DEF g1
  <2>5. g.pc = "reply" /\ g.data = e
    BY <2>3, Zenon DEF GetState
  <2> HIDE DEF g
  <2>6. get'[n] = g /\ \A a \in Node \ {n} : get'[a] = get[a]
    BY <1>1, <2>4, Zenon DEF DataTypeOK
  <2>7. Serves(n, m, k, next)
    BY <1>1, <1>3, <1>4, <1>5, <1>6, <2>1, <2>2, <2>5, <2>6, Zenon DEF Serves
  <2> QED
    BY <2>7, Zenon DEF ReadStep
<1>7. CASE get' = [get EXCEPT ![n].pc = "reply"] /\ UNCHANGED position
  <2>1. /\ get'[n].pc = "reply" /\ get'[n].data = NoReq
        /\ \A a \in Node \ {n} : get'[a] = get[a]
    BY <1>1, <1>7, Zenon DEF DataTypeOK, GetState
  <2> QED
    BY <1>4, <1>5, <1>7, <2>1, GetIdles, DataPlaneAssumption, Zenon
<1> QED
  BY <1>2, <1>3, <1>6, <1>7, Zenon DEF GetServe

LEMMA GetReplyReads ==
  ASSUME DataInv, NEW n \in Node, GetReply(n)
  PROVE  ReadStep
<1>1. DataTypeOK /\ get[n] \in GetState /\ get[n].pc = "reply"
  BY Zenon DEF DataInv, DataTypeOK, GetReply
<1>2. UNCHANGED <<replicaVars, wal, position>>
  BY Zenon DEF GetReply
<1>3. restarts' = restarts
  BY <1>2, Zenon DEF replicaVars
<1>4. ASSUME get' = [get EXCEPT ![n] = IdleGet]
      PROVE  get'[n].pc = Idle /\ \A a \in Node \ {n} : get'[a] = get[a]
  BY <1>1, <1>4, Zenon DEF DataTypeOK, IdleGet
<1>5. CASE /\ get[n].data # NoReq
           /\ got' = [got EXCEPT ![get[n].data] = @ + 1]
           /\ get' = [get EXCEPT ![n] = IdleGet]
  <2>1. PICK e \in Req : e = get[n].data
    BY <1>1, <1>5, Zenon DEF GetState
  <2>2. Returns(n, e)
    BY <1>1, <1>2, <1>3, <1>4, <1>5, <2>1, Zenon DEF Returns
  <2> QED
    BY <2>2, Zenon DEF ReadStep
<1>6. CASE get' = [get EXCEPT ![n] = IdleGet] /\ UNCHANGED got
  BY <1>2, <1>3, <1>4, <1>6, GetIdles, Zenon DEF Idle
<1>7. CASE /\ get' = [get EXCEPT ![n] = [IdleGet EXCEPT !.pc = "loop", !.key = get[n].key]]
           /\ UNCHANGED got
  <2>1. PICK k \in Key : k = get[n].key
    BY <1>1, Zenon DEF GetState
  <2> DEFINE g == [IdleGet EXCEPT !.pc = "loop", !.key = k]
  <2>2. g.pc = "loop"
    BY LoopTyped, Zenon
  <2>3. get' = [get EXCEPT ![n] = g]
    BY <1>7, <2>1, Zenon
  <2> HIDE DEF g
  <2>4. get'[n] = g /\ \A a \in Node \ {n} : get'[a] = get[a]
    BY <1>1, <2>3, Zenon DEF DataTypeOK
  <2> QED
    BY <1>2, <1>3, <1>7, <2>2, <2>4, GetIdles, Zenon
<1> QED
  BY <1>5, <1>6, <1>7, Zenon DEF GetReply

LEMMA GetsRead ==
  ASSUME DataInv, GetNext
  PROVE  ReadStep
BY GetStartReads, GetRoundReads, GetServeReads, GetReplyReads, GetFailsReads, Zenon
   DEF GetNext, HandleGet
=============================================================================
