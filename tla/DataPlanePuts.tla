--------------------------- MODULE DataPlanePuts ----------------------------
(***************************************************************************)
(* The steps of a PUT handler preserve the invariant of the data plane.    *)
(***************************************************************************)
EXTENDS MetadataProofs

LEMMA PutTyped ==
  ASSUME DataTypeOK, NEW r \in Req
  PROVE  /\ put[r] \in PutState
         /\ put[r].pc \in PutPC
         /\ put[r].target \in Node
         /\ put[r].key \in Key
         /\ put[r].expected \subseteq Key
<1>1. put[r] \in PutState
  BY Zenon DEF DataTypeOK
<1> QED
  BY <1>1, Zenon DEF PutState

\* A step that moves handler r to p, changes neither the log nor the counts,
\* and grants leases for segments the node leads only.
MovesPut(r, p) ==
  /\ put' = [put EXCEPT ![r] = p]
  /\ leases' \in [Node -> SUBSET Key]
  /\ \A n \in Node : \A k \in leases'[n] : Leads(n, k)
  /\ result' \in [Req -> {"none", "ok", "err"}]
  /\ \A q \in Req : result'[q] = "ok" => result[q] = "ok" \/ (q = r /\ Wrote(put[r]))
  /\ p.pc \in Unwritten => put[r].pc \in Unwritten
  /\ Wrote(p) => Wrote(put[r]) /\ p.target = put[r].target /\ p.key = put[r].key
  /\ p.pc = "write" => Leads(p.target, p.key)
  /\ \A k \in p.expected : Leads(p.target, k)
  /\ UNCHANGED <<sync, offsets, wal, position, monitor, getVars>>

LEMMA MovesPutKeeps ==
  ASSUME DataInv, MetaMoves, NEW r \in Req, NEW p \in PutState, MovesPut(r, p)
  PROVE  DataInv'
<1> USE DEF MovesPut
<1>1. /\ MetaInv' /\ LeadsKept /\ MetaKept /\ restarts' = restarts
      /\ MetaInv /\ DataTypeOK /\ LeaseInv /\ GetInv /\ OnceInv
  BY MetaMovesKeep, Zenon DEF DataInv
<1>2. UNCHANGED <<sync, offsets, wal, position, monitor, get, cursor, got>>
  BY Zenon DEF getVars
<1>3. put'[r] = p /\ \A q \in Req \ {r} : put'[q] = put[q]
  BY <1>1, Zenon DEF DataTypeOK
<1>4. DataTypeOK'
  BY <1>1, <1>2, Zenon DEF DataTypeOK
<1>5. LeaseInv'
  <2>1. \A n \in Node : \A k \in leases'[n] : Leads(n, k)'
    BY <1>1, Zenon DEF LeadsKept
  <2>2. \A n \in Node : \A keys \in sync'[n] : \A k \in keys : Leads(n, k)'
    BY <1>1, <1>2, Zenon DEF LeadsKept, LeaseInv
  <2>3. \A q \in Req : \A k \in put'[q].expected : Leads(put[q].target, k)'
    <3>1. \A q \in Req : \A k \in put'[q].expected : Leads(put'[q].target, k)
      BY <1>1, <1>3, Zenon DEF LeaseInv
    <3> QED
      BY <3>1, <1>1, Zenon DEF LeadsKept
  <2>4. \A q \in Req : put'[q].pc = "write" => Leads(put[q].target, put[q].key)'
    <3>1. \A q \in Req : put'[q].pc = "write" => Leads(put'[q].target, put'[q].key)
      BY <1>1, <1>3, Zenon DEF LeaseInv
    <3> QED
      BY <3>1, <1>1, Zenon DEF LeadsKept
  <2>5. \A n \in Node, k \in Key : wal'[n][k] # <<>> => Leads(n, k)'
    BY <1>1, <1>2, Zenon DEF LeadsKept, LeaseInv
  <2> QED
    BY <2>1, <2>2, <2>3, <2>4, <2>5, Zenon DEF LeaseInv
<1>6. GetInv'
  BY <1>1, <1>2, GetKept, Zenon
<1>7. OnceInv'
  <2>1. \A n, k : Stored(n, k)' = Stored(n, k)
    BY <1>2, StoredKept, Zenon
  <2>2. \A q \in Req : put'[q].pc \in Unwritten =>
          \A n \in Node, k \in Key : q \notin Stored(n, k)
    BY <1>1, <1>3, Zenon DEF OnceInv
  <2>3. \A q \in Req : Wrote(put'[q]) => q \in Stored(put'[q].target, put'[q].key)
    BY <1>1, <1>3 DEF OnceInv
  <2>4. \A q \in Req : result'[q] = "ok" =>
          \E n \in Node, k \in Key : q \in Stored(n, k)
    <3>1. put[r].target \in Node /\ put[r].key \in Key
      BY <1>1, PutTyped, Zenon
    <3> QED
      BY <1>1, <3>1, Zenon DEF OnceInv
  <2>5. OneCopy'
    BY <1>1, <1>2 DEF OnceInv, OneCopy
  <2>6. \A q \in Req : Wrote(put[q])' => q \in Stored(put[q].target, put[q].key)'
    BY <2>1, <2>3, Zenon DEF Wrote
  <2> QED
    BY <2>1, <2>2, <2>4, <2>5, <2>6, Zenon DEF OnceInv
<1> QED
  BY <1>1, <1>4, <1>5, <1>6, <1>7, Zenon DEF DataInv

LEMMA PutStartStep ==
  ASSUME DataInv, NEW r \in Req, NEW n \in Node, NEW t \in Topic, PutStart(r, n, t)
  PROVE  DataInv'
<1> DEFINE ts == meta[n].topics[t]
           p  == [IdlePut EXCEPT !.pc = IF ts.leader_node = n THEN "lease" ELSE "sent",
                                 !.origin = n,
                                 !.target = ts.leader_node,
                                 !.key = <<t, ts.current_segment>>]
<1>1. /\ put[r].pc = Idle
      /\ t \in DOMAIN meta[n].topics
      /\ put' = [put EXCEPT ![r] = p]
      /\ UNCHANGED <<replicaVars, leases, sync, offsets, wal, position, result,
                     monitor, getVars>>
  BY Zenon DEF PutStart
<1>2. ts.leader_node \in Node /\ <<t, ts.current_segment>> \in Key
  <2>1. ts.current_segment \in 1..ts.current_segment
    BY <1>1, ReplicaLeads, BoundsAssumption DEF DataInv
  <2> QED
    BY <1>1, <2>1, ReplicaLeads, Zenon DEF DataInv
<1>3. p \in PutState /\ p.pc \in {"lease", "sent"} /\ p.expected = {}
  <2> DEFINE pc == IF ts.leader_node = n THEN "lease" ELSE "sent"
             p1 == [IdlePut EXCEPT !.pc = pc]
             p2 == [p1 EXCEPT !.origin = n]
             p3 == [p2 EXCEPT !.target = ts.leader_node]
  <2>1. pc \in {"lease", "sent"}
    BY Zenon
  <2> HIDE DEF pc
  <2>2. p1 \in PutState /\ p1.pc = pc /\ p1.expected = {}
    BY <2>1, IdleStates, Zenon DEF PutState, PutPC, IdlePut
  <2> HIDE DEF p1
  <2>3. p2 \in PutState /\ p2.pc = pc /\ p2.expected = {}
    BY <2>2, Zenon DEF PutState
  <2> HIDE DEF p2
  <2>4. p3 \in PutState /\ p3.pc = pc /\ p3.expected = {}
    BY <1>2, <2>3, Zenon DEF PutState
  <2> HIDE DEF p3
  <2>5. LET p4 == [p3 EXCEPT !.key = <<t, ts.current_segment>>]
        IN  p4 \in PutState /\ p4.pc = pc /\ p4.expected = {}
    BY <1>2, <2>4, Zenon DEF PutState
  <2> QED
    BY <2>1, <2>5, Zenon DEF p1, p2, p3, pc
<1>4. MetaMoves
  BY <1>1, Zenon DEF MetaMoves
<1>5. /\ leases' \in [Node -> SUBSET Key]
      /\ \A m \in Node : \A k \in leases'[m] : Leads(m, k)
      /\ result' \in [Req -> {"none", "ok", "err"}]
  BY <1>1, Zenon DEF DataInv, DataTypeOK, LeaseInv
<1> HIDE DEF p
<1>9. MovesPut(r, p)
  BY <1>1, <1>3, <1>4, <1>5, Zenon DEF MovesPut, Unwritten, Wrote
<1> QED
  BY <1>3, <1>4, <1>9, MovesPutKeeps, Zenon

LEMMA PutRefusedStep ==
  ASSUME DataInv, NEW r \in Req, NEW n \in Node, NEW t \in Topic, PutRefused(r, n, t)
  PROVE  DataInv'
<1> DEFINE p == [put[r] EXCEPT !.pc = "done"]
<1>1. /\ put' = [put EXCEPT ![r] = p]
      /\ result' = [result EXCEPT ![r] = "err"]
      /\ UNCHANGED <<replicaVars, leases, sync, offsets, wal, position, monitor, getVars>>
  BY Zenon DEF PutRefused
<1>2. /\ p \in PutState
      /\ p.pc = "done" /\ p.target = put[r].target /\ p.expected = put[r].expected
  BY PutTyped, Zenon DEF DataInv, PutState, PutPC
<1>3. MetaMoves
  BY <1>1, Zenon DEF MetaMoves
<1>4. /\ leases' \in [Node -> SUBSET Key]
      /\ \A m \in Node : \A k \in leases'[m] : Leads(m, k)
      /\ \A k \in p.expected : Leads(p.target, k)
      /\ result' \in [Req -> {"none", "ok", "err"}]
      /\ \A q \in Req : result'[q] = "ok" => result[q] = "ok"
  BY <1>1, <1>2, Zenon DEF DataInv, DataTypeOK, LeaseInv
<1> HIDE DEF p
<1>9. MovesPut(r, p)
  BY <1>1, <1>2, <1>3, <1>4, Zenon DEF MovesPut, Unwritten, Idle, Wrote
<1> QED
  BY <1>2, <1>3, <1>9, MovesPutKeeps, Zenon

\* A step that moves handler r to p and leaves everything else alone.
GoesTo(r, p) ==
  /\ put' = [put EXCEPT ![r] = p]
  /\ p.target = put[r].target /\ p.key = put[r].key
  /\ p.pc \in Unwritten => put[r].pc \in Unwritten
  /\ Wrote(p) => Wrote(put[r])
  /\ p.pc # "record"
  /\ p.pc = "write" => Leads(p.target, p.key)
  /\ \A k \in p.expected : Leads(p.target, k)
  /\ UNCHANGED <<replicaVars, leases, sync, offsets, wal, position, result,
                 monitor, getVars>>

LEMMA GoesToKeeps ==
  ASSUME DataInv, NEW r \in Req, NEW p \in PutState, GoesTo(r, p)
  PROVE  DataInv'
<1>1. MetaMoves
  BY Zenon DEF MetaMoves, GoesTo
<1>2. /\ leases' \in [Node -> SUBSET Key]
      /\ \A m \in Node : \A k \in leases'[m] : Leads(m, k)
      /\ result' \in [Req -> {"none", "ok", "err"}]
  BY Zenon DEF DataInv, DataTypeOK, LeaseInv, GoesTo
<1>3. MovesPut(r, p)
  BY <1>2, Zenon DEF GoesTo, MovesPut
<1> QED
  BY <1>1, <1>3, MovesPutKeeps, Zenon

LEMMA PutDeliverStep ==
  ASSUME DataInv, NEW r \in Req, PutDeliver(r)
  PROVE  DataInv'
<1> DEFINE p == [put[r] EXCEPT !.pc = "lease"]
<1>1. /\ put[r].pc = "sent"
      /\ put' = [put EXCEPT ![r] = p]
      /\ UNCHANGED <<replicaVars, leases, sync, offsets, wal, position, result,
                     monitor, getVars>>
  BY Zenon DEF PutDeliver, Goto
<1>2. /\ p \in PutState /\ p.pc = "lease"
      /\ p.target = put[r].target /\ p.key = put[r].key /\ p.expected = put[r].expected
  BY PutTyped, Zenon DEF DataInv, PutState, PutPC
<1>3. \A k \in p.expected : Leads(p.target, k)
  BY <1>2, Zenon DEF DataInv, LeaseInv
<1> HIDE DEF p
<1>9. GoesTo(r, p)
  BY <1>1, <1>2, <1>3, Zenon DEF GoesTo, Unwritten, Wrote
<1> QED
  BY <1>2, <1>9, GoesToKeeps, Zenon

LEMMA PutReadOwnedStep ==
  ASSUME DataInv, NEW r \in Req, PutReadOwned(r)
  PROVE  DataInv'
<1> DEFINE n == put[r].target
           p == [put[r] EXCEPT !.pc = "sync", !.expected = owned_topics(meta[n], n)]
<1>1. /\ put[r].pc = "lease"
      /\ put' = [put EXCEPT ![r] = p]
      /\ UNCHANGED <<replicaVars, leases, sync, offsets, wal, position, result,
                     monitor, getVars>>
  BY Zenon DEF PutReadOwned
<1>2. n \in Node
  BY PutTyped, Zenon DEF DataInv
<1>3. /\ owned_topics(meta[n], n) \subseteq Key
      /\ \A k \in owned_topics(meta[n], n) : Leads(n, k)
  BY <1>2, OwnedLeads, Zenon DEF DataInv
<1>4. /\ p \in PutState /\ p.pc = "sync"
      /\ p.target = n /\ p.key = put[r].key /\ p.expected = owned_topics(meta[n], n)
  <2> DEFINE p1 == [put[r] EXCEPT !.pc = "sync"]
  <2>1. p1 \in PutState /\ p1.pc = "sync" /\ p1.target = n /\ p1.key = put[r].key
    BY PutTyped, Zenon DEF DataInv, PutState, PutPC
  <2> HIDE DEF p1
  <2>2. LET p2 == [p1 EXCEPT !.expected = owned_topics(meta[n], n)]
        IN  /\ p2 \in PutState /\ p2.pc = "sync"
            /\ p2.target = n /\ p2.key = put[r].key
            /\ p2.expected = owned_topics(meta[n], n)
    BY <1>3, <2>1, Zenon DEF PutState
  <2> QED
    BY <2>2, Zenon DEF p1
<1> HIDE DEF p
<1>9. GoesTo(r, p)
  BY <1>1, <1>3, <1>4, Zenon DEF GoesTo, Unwritten, Wrote
<1> QED
  BY <1>4, <1>9, GoesToKeeps, Zenon

LEMMA PutInstallLeasesStep ==
  ASSUME DataInv, NEW r \in Req, PutInstallLeases(r)
  PROVE  DataInv'
<1> DEFINE n == put[r].target
           p == [put[r] EXCEPT !.pc = "check"]
<1>1. /\ put[r].pc = "sync"
      /\ put' = [put EXCEPT ![r] = p]
      /\ leases' = [leases EXCEPT ![n] = put[r].expected]
      /\ UNCHANGED <<replicaVars, sync, offsets, wal, position, result, monitor, getVars>>
  BY Zenon DEF PutInstallLeases, Goto
<1>2. /\ p \in PutState /\ p.pc = "check"
      /\ p.target = n /\ p.key = put[r].key /\ p.expected = put[r].expected
  BY PutTyped, Zenon DEF DataInv, PutState, PutPC
<1>3. \A k \in p.expected : Leads(p.target, k)
  BY <1>2, Zenon DEF DataInv, LeaseInv
<1>4. leases' \in [Node -> SUBSET Key]
  BY <1>1, PutTyped, Zenon DEF DataInv, DataTypeOK
<1>5. \A m \in Node : \A k \in leases'[m] : Leads(m, k)
  BY <1>1 DEF DataInv, DataTypeOK, LeaseInv
<1>6. MetaMoves /\ result' \in [Req -> {"none", "ok", "err"}]
  BY <1>1, Zenon DEF MetaMoves, DataInv, DataTypeOK
<1> HIDE DEF p
<1>9. MovesPut(r, p)
  BY <1>1, <1>2, <1>3, <1>4, <1>5, <1>6, Zenon DEF MovesPut, Unwritten, Wrote
<1> QED
  BY <1>2, <1>6, <1>9, MovesPutKeeps, Zenon

\* An attempt that failed before anything was written.
LEMMA AttemptFailedStep ==
  ASSUME DataInv, NEW r \in Req, put[r].pc \in {"check", "write"}, AttemptFailed(r),
         UNCHANGED <<replicaVars, leases, sync, offsets, wal, position, result,
                     monitor, getVars>>
  PROVE  DataInv'
<1> DEFINE p == IF put[r].attempt = 0
                THEN [put[r] EXCEPT !.pc = "lease", !.attempt = 1]
                ELSE [put[r] EXCEPT !.pc = "reply", !.ok = FALSE]
<1>1. put' = [put EXCEPT ![r] = p]
  BY Zenon DEF AttemptFailed
<1>2. /\ p \in PutState
      /\ p.pc = "lease" \/ (p.pc = "reply" /\ p.ok = FALSE)
      /\ p.target = put[r].target /\ p.key = put[r].key /\ p.expected = put[r].expected
  <2> DEFINE p1 == [put[r] EXCEPT !.pc = "lease"]
             p2 == [put[r] EXCEPT !.pc = "reply"]
             Same(q) == /\ q.target = put[r].target /\ q.key = put[r].key
                        /\ q.expected = put[r].expected
  <2>1. /\ p1 \in PutState /\ p1.pc = "lease" /\ Same(p1)
        /\ p2 \in PutState /\ p2.pc = "reply" /\ Same(p2)
    BY PutTyped, Zenon DEF DataInv, PutState, PutPC
  <2> HIDE DEF p1, p2
  <2>2. LET q == [p1 EXCEPT !.attempt = 1]
        IN  q \in PutState /\ q.pc = "lease" /\ Same(q)
    BY <2>1 DEF PutState
  <2>3. LET q == [p2 EXCEPT !.ok = FALSE]
        IN  q \in PutState /\ q.pc = "reply" /\ q.ok = FALSE /\ Same(q)
    BY <2>1, Zenon DEF PutState
  <2> QED
    BY <2>2, <2>3, Zenon DEF p1, p2
<1>3. \A k \in p.expected : Leads(p.target, k)
  BY <1>2, Zenon DEF DataInv, LeaseInv
<1> HIDE DEF p
<1>9. GoesTo(r, p)
  BY <1>1, <1>2, <1>3, Zenon DEF GoesTo, Unwritten, Wrote
<1> QED
  BY <1>2, <1>9, GoesToKeeps, Zenon

LEMMA PutCheckLeaseStep ==
  ASSUME DataInv, NEW r \in Req, PutCheckLease(r)
  PROVE  DataInv'
<1> USE DEF PutCheckLease
<1>1. CASE put[r].key \in leases[put[r].target]
  <2> DEFINE p == [put[r] EXCEPT !.pc = "write"]
  <2>1. put' = [put EXCEPT ![r] = p]
    BY <1>1, Zenon
  <2>2. /\ p \in PutState /\ p.pc = "write"
        /\ p.target = put[r].target /\ p.key = put[r].key /\ p.expected = put[r].expected
    BY PutTyped, Zenon DEF DataInv, PutState, PutPC
  <2>3. Leads(p.target, p.key) /\ \A k \in p.expected : Leads(p.target, k)
    BY <1>1, <2>2, PutTyped, Zenon DEF DataInv, LeaseInv
  <2> HIDE DEF p
  <2>9. GoesTo(r, p)
    BY <2>1, <2>2, <2>3, Zenon DEF GoesTo, Unwritten, Wrote
  <2> QED
    BY <2>2, <2>9, GoesToKeeps, Zenon
<1>2. CASE put[r].key \notin leases[put[r].target]
  BY <1>2, AttemptFailedStep, Zenon
<1> QED
  BY <1>1, <1>2, Zenon

LEMMA PutWriteFailsStep ==
  ASSUME DataInv, NEW r \in Req, PutWriteFails(r)
  PROVE  DataInv'
BY AttemptFailedStep, Zenon DEF PutWriteFails

LEMMA AppendedTo ==
  ASSUME NEW S, NEW s \in Seq(S), NEW x \in S
  PROVE  /\ Append(s, x) \in Seq(S)
         /\ Len(s) \in Nat
         /\ DOMAIN s = 1..Len(s)
         /\ DOMAIN Append(s, x) = 1..(Len(s) + 1)
         /\ \A i \in 1..Len(s) : Append(s, x)[i] = s[i]
         /\ Append(s, x)[Len(s) + 1] = x
<1>1. /\ Append(s, x) \in Seq(S)
      /\ Len(s) \in Nat
      /\ Len(Append(s, x)) = Len(s) + 1
      /\ \A i \in 1..Len(s) : Append(s, x)[i] = s[i]
      /\ Append(s, x)[Len(s) + 1] = x
  OBVIOUS
<1>2. DOMAIN s = 1..Len(s) /\ DOMAIN Append(s, x) = 1..Len(Append(s, x))
  BY <1>1
<1> QED
  BY <1>1, <1>2, Zenon

LEMMA WriteAppends ==
  ASSUME DataTypeOK, OnceInv, NEW r \in Req, NEW n \in Node, NEW k \in Key,
         put[r].pc = "write",
         wal' = [wal EXCEPT ![n][k] = Append(wal[n][k], r)]
  PROVE  Appends(r, n, k)
<1> DEFINE len == Len(wal[n][k])
<1>6. wal[n][k] \in Seq(Req) /\ len \in Nat
  BY DEF DataTypeOK
<1>7. /\ wal'[n][k] = Append(wal[n][k], r)
      /\ \A m \in Node, l \in Key : m # n \/ l # k => wal'[m][l] = wal[m][l]
  BY Zenon DEF DataTypeOK
<1>8. /\ wal'[n][k] \in Seq(Req)
      /\ DOMAIN wal[n][k] = 1..len
      /\ DOMAIN wal'[n][k] = 1..(len + 1)
      /\ \A i \in 1..len : wal'[n][k][i] = wal[n][k][i]
      /\ wal'[n][k][len + 1] = r
  <2> DEFINE s == wal[n][k]
  <2>1. s \in Seq(Req)
    BY <1>6, Zenon
  <2> HIDE DEF s
  <2>2. /\ Append(s, r) \in Seq(Req)
        /\ DOMAIN s = 1..Len(s)
        /\ DOMAIN Append(s, r) = 1..(Len(s) + 1)
        /\ \A i \in 1..Len(s) : Append(s, r)[i] = s[i]
        /\ Append(s, r)[Len(s) + 1] = r
    BY <2>1, AppendedTo
  <2> QED
    BY <2>2, <1>7, Zenon DEF s
<1> HIDE DEF len
<1>9. \A m \in Node, l \in Key : \A i \in DOMAIN wal'[m][l] :
         \/ i \in DOMAIN wal[m][l] /\ wal'[m][l][i] = wal[m][l][i]
         \/ m = n /\ l = k /\ i = len + 1 /\ wal'[m][l][i] = r
  <2>1. \A i \in 1..(len + 1) : i \in 1..len \/ i = len + 1
    BY <1>6
  <2> SUFFICES ASSUME NEW m \in Node, NEW l \in Key, NEW i \in DOMAIN wal'[m][l]
               PROVE  \/ i \in DOMAIN wal[m][l] /\ wal'[m][l][i] = wal[m][l][i]
                      \/ m = n /\ l = k /\ i = len + 1 /\ wal'[m][l][i] = r
    BY Zenon
  <2>2. CASE m = n /\ l = k
    BY <2>1, <2>2, <1>8, Zenon
  <2>3. CASE m # n \/ l # k
    BY <2>3, <1>7, Zenon
  <2> QED
    BY <2>2, <2>3, Zenon
<1>10. \A m \in Node, l \in Key :
          /\ Stored(m, l) \subseteq Stored(m, l)'
          /\ Stored(m, l)' \subseteq Stored(m, l) \cup {r}
          /\ r \notin Stored(m, l)
  <2>1. \A m \in Node, l \in Key : r \notin Stored(m, l)
    BY Zenon DEF OnceInv, Unwritten
  <2>2. \A m \in Node, l \in Key : \A i \in DOMAIN wal[m][l] :
           i \in DOMAIN wal'[m][l] /\ wal'[m][l][i] = wal[m][l][i]
    <3>1. 1..len \subseteq 1..(len + 1)
      BY <1>6
    <3>2. \A i \in DOMAIN wal[n][k] :
             i \in DOMAIN wal'[n][k] /\ wal'[n][k][i] = wal[n][k][i]
      BY <3>1, <1>8, Zenon
    <3> QED
      BY <3>2, <1>7, Zenon
  <2>3. \A m \in Node, l \in Key : Stored(m, l) \subseteq Stored(m, l)'
    BY <2>2 DEF Stored
  <2>4. \A m \in Node, l \in Key : Stored(m, l)' \subseteq Stored(m, l) \cup {r}
    BY <1>9 DEF Stored
  <2> QED
    BY <2>1, <2>3, <2>4, Zenon
<1>11. r \in Stored(n, k)'
  <2>1. len + 1 \in DOMAIN wal'[n][k] /\ wal'[n][k][len + 1] = r
    BY <1>6, <1>8
  <2> QED
    BY <2>1, Zenon DEF Stored
<1>12. wal' \in [Node -> [Key -> Seq(Req)]]
  <2>1. PICK s \in Seq(Req) : s = Append(wal[n][k], r)
    BY <1>7, <1>8, Zenon
  <2>2. wal \in [Node -> [Key -> Seq(Req)]] /\ wal' = [wal EXCEPT ![n][k] = s]
    BY <2>1, Zenon DEF DataTypeOK
  <2> QED
    BY <2>2
<1> QED
  BY <1>7, <1>9, <1>10, <1>11, <1>12, Zenon DEF Appends, len

\* What PutWrite does to the log, the counts and the readers.
LEMMA PutWriteAppends ==
  ASSUME DataInv, NEW r \in Req, PutWrite(r)
  PROVE  \E n \in Node, k \in Key : WritesEntry(r, n, k)
<1> PICK n \in Node, k \in Key : n = put[r].target /\ k = put[r].key
  BY PutTyped, Zenon DEF DataInv
<1>1. DataTypeOK /\ OnceInv /\ put[r] \in PutState
  BY PutTyped, Zenon DEF DataInv
<1>2. /\ put[r].pc = "write" /\ UNCHANGED <<offsets, replicaVars, position, get, got>>
      /\ put' = [put EXCEPT ![r] = [put[r] EXCEPT !.pc = "record"]]
      /\ wal' = [wal EXCEPT ![n][k] = Append(wal[n][k], r)]
  BY Zenon DEF PutWrite, Goto, getVars
<1>3. Appends(r, n, k)
  BY <1>1, <1>2, WriteAppends, Zenon
<1>4. put'[r].pc = "record" /\ \A q \in Req \ {r} : put'[q] = put[q]
  BY <1>1, <1>2, Zenon DEF DataTypeOK, PutState
<1>5. UNCHANGED restarts
  BY <1>2, Zenon DEF replicaVars
<1> QED
  BY <1>2, <1>3, <1>4, <1>5, Zenon DEF WritesEntry

\* The one step that writes: the handler's entry is new, and goes to the end of
\* a segment the node leads.
LEMMA PutWriteStep ==
  ASSUME DataInv, NEW r \in Req, PutWrite(r)
  PROVE  DataInv'
<1> PICK n \in Node, k \in Key : n = put[r].target /\ k = put[r].key
  BY PutTyped, Zenon DEF DataInv
<1> DEFINE p == [put[r] EXCEPT !.pc = "record"]
<1>1. /\ put[r].pc = "write"
      /\ put' = [put EXCEPT ![r] = p]
      /\ wal' = [wal EXCEPT ![n][k] = Append(wal[n][k], r)]
      /\ UNCHANGED <<replicaVars, leases, sync, offsets, position, result, monitor,
                     get, cursor, got>>
  BY Zenon DEF PutWrite, Goto, getVars
<1>2. MetaMoves
  BY <1>1, Zenon DEF MetaMoves
<1>3. /\ MetaInv' /\ LeadsKept /\ MetaKept /\ restarts' = restarts
      /\ MetaInv /\ DataTypeOK /\ LeaseInv /\ GetInv /\ OnceInv
  BY <1>2, MetaMovesKeep, Zenon DEF DataInv
<1>4. /\ p \in PutState
      /\ p.pc = "record" /\ p.target = n /\ p.key = k /\ p.expected = put[r].expected
  BY <1>3, PutTyped, Zenon DEF PutState, PutPC
<1>5. put'[r] = p /\ \A q \in Req \ {r} : put'[q] = put[q]
  BY <1>1, <1>3, Zenon DEF DataTypeOK
<1>6. Appends(r, n, k)
  BY <1>1, <1>3, WriteAppends, Zenon
<1> HIDE DEF p
<1>7. \A m \in Node, l \in Key : m # n \/ l # k => wal'[m][l] = wal[m][l]
  BY <1>6, Zenon DEF Appends
<1>9. \A m \in Node, l \in Key : \A i \in DOMAIN wal'[m][l] :
         \/ i \in DOMAIN wal[m][l] /\ wal'[m][l][i] = wal[m][l][i]
         \/ m = n /\ l = k /\ i = Len(wal[n][k]) + 1 /\ wal'[m][l][i] = r
  BY <1>6, Zenon DEF Appends
<1>10. \A m \in Node, l \in Key : /\ Stored(m, l) \subseteq Stored(m, l)'
                                 /\ Stored(m, l)' \subseteq Stored(m, l) \cup {r}
                                 /\ r \notin Stored(m, l)
  BY <1>6, Zenon DEF Appends
<1>11. r \in Stored(n, k)' /\ wal' \in [Node -> [Key -> Seq(Req)]]
  BY <1>6, Zenon DEF Appends
<1>12. DataTypeOK'
  <2>2. put' \in [Req -> PutState]
    BY <1>1, <1>3, <1>4, Zenon DEF DataTypeOK
  <2> QED
    BY <2>2, <1>1, <1>3, <1>11, Zenon DEF DataTypeOK
<1>13. LeaseInv'
  <2>1. Leads(n, k)
    BY <1>1, <1>3, Zenon DEF LeaseInv
  <2>2. \A m \in Node, l \in Key : wal'[m][l] # <<>> => Leads(m, l)
    BY <2>1, <1>3, <1>7, Zenon DEF LeaseInv
  <2>3. \A q \in Req : \A l \in put'[q].expected : Leads(put'[q].target, l)
    BY <1>3, <1>4, <1>5, Zenon DEF LeaseInv
  <2>4. \A q \in Req : put'[q].pc = "write" => Leads(put'[q].target, put'[q].key)
    BY <1>3, <1>4, <1>5, Zenon DEF LeaseInv
  <2>5. /\ \A q \in Req : \A l \in put'[q].expected : Leads(put[q].target, l)'
        /\ \A q \in Req : put'[q].pc = "write" => Leads(put[q].target, put[q].key)'
    BY <2>3, <2>4, <1>3, Zenon DEF LeadsKept
  <2>6. \A m \in Node, l \in Key : wal'[m][l] # <<>> => Leads(m, l)'
    BY <2>2, <1>3, Zenon DEF LeadsKept
  <2>7. /\ \A m \in Node : \A l \in leases'[m] : Leads(m, l)'
        /\ \A m \in Node : \A keys \in sync'[m] : \A l \in keys : Leads(m, l)'
    BY <1>1, <1>3, Zenon DEF LeaseInv, LeadsKept
  <2> QED
    BY <2>5, <2>6, <2>7, Zenon DEF LeaseInv
<1>14. GetInv'
  BY <1>1, <1>3, GetKept, Zenon
<1>15. OnceInv'
  <2>1. \A q \in Req : put'[q].pc \in Unwritten =>
          \A m \in Node, l \in Key : q \notin Stored(m, l)'
    <3>1. "record" \notin Unwritten
      BY Zenon DEF Unwritten, Idle
    <3> QED
      BY <3>1, <1>3, <1>4, <1>5, <1>10 DEF OnceInv
  <2>2. \A q \in Req : Wrote(put[q])' => q \in Stored(put[q].target, put[q].key)'
    <3> SUFFICES ASSUME NEW q \in Req, Wrote(put[q])'
                 PROVE  q \in Stored(put[q].target, put[q].key)'
      BY Zenon
    <3>1. CASE q = r
      BY <3>1, <1>4, <1>5, <1>11, Zenon
    <3>2. CASE q # r
      <4>1. put'[q] = put[q] /\ put[q].target \in Node /\ put[q].key \in Key
        BY <3>2, <1>3, <1>5, PutTyped, Zenon
      <4>2. q \in Stored(put[q].target, put[q].key)
        BY <4>1, <1>3, Zenon DEF OnceInv, Wrote
      <4> QED
        BY <4>1, <4>2, <1>10, Zenon
    <3> QED
      BY <3>1, <3>2, Zenon
  <2>3. \A q \in Req : result'[q] = "ok" =>
          \E m \in Node, l \in Key : q \in Stored(m, l)'
    BY <1>1, <1>3, <1>10, Zenon DEF OnceInv
  <2>4. OneCopy'
    <3>1. \A m \in Node, l \in Key : \A i \in DOMAIN wal[m][l] : wal[m][l][i] # r
      BY <1>10 DEF Stored
    <3> QED
      BY <3>1, <1>3, <1>9 DEF OnceInv, OneCopy
  <2> QED
    BY <2>1, <2>2, <2>3, <2>4, Zenon DEF OnceInv
<1> QED
  BY <1>3, <1>12, <1>13, <1>14, <1>15, Zenon DEF DataInv

LEMMA PutRecordStep ==
  ASSUME DataInv, NEW r \in Req, PutRecord(r)
  PROVE  DataInv'
<1> PICK n \in Node, k \in Key : n = put[r].target /\ k = put[r].key
  BY PutTyped, Zenon DEF DataInv
<1> DEFINE p == [put[r] EXCEPT !.pc = "count"]
<1>1. /\ put[r].pc = "record"
      /\ put' = [put EXCEPT ![r] = p]
      /\ offsets' = [offsets EXCEPT ![n][k] = offsets[n][k] + 1]
      /\ UNCHANGED <<replicaVars, leases, sync, wal, position, result, monitor,
                     get, cursor, got>>
  BY Zenon DEF PutRecord, Goto, getVars
<1>2. MetaMoves
  BY <1>1, Zenon DEF MetaMoves
<1>3. /\ MetaInv' /\ LeadsKept /\ MetaKept /\ restarts' = restarts
      /\ MetaInv /\ DataTypeOK /\ LeaseInv /\ GetInv /\ OnceInv
  BY <1>2, MetaMovesKeep, Zenon DEF DataInv
<1>4. /\ p \in PutState
      /\ p.pc = "count" /\ p.target = n /\ p.key = k /\ p.expected = put[r].expected
  BY <1>3, PutTyped, Zenon DEF PutState, PutPC
<1>5. put'[r] = p /\ \A q \in Req \ {r} : put'[q] = put[q]
  BY <1>1, <1>3, Zenon DEF DataTypeOK
<1> HIDE DEF p
<1>6. /\ offsets[n][k] \in Nat
      /\ offsets'[n][k] = offsets[n][k] + 1
      /\ \A m \in Node, l \in Key : m # n \/ l # k => offsets'[m][l] = offsets[m][l]
  BY <1>1, <1>3, Zenon DEF DataTypeOK
<1>7. DataTypeOK'
  <2>1. offsets' \in [Node -> [Key -> Nat]]
    <3>1. offsets \in [Node -> [Key -> Nat]]
      BY <1>3, Zenon DEF DataTypeOK
    <3>2. offsets' = [offsets EXCEPT ![n][k] = offsets[n][k] + 1] /\ offsets[n][k] + 1 \in Nat
      BY <1>1, <1>6
    <3> QED
      BY <3>1, <3>2, Zenon
  <2>2. put' \in [Req -> PutState]
    BY <1>1, <1>3, <1>4, Zenon DEF DataTypeOK
  <2> QED
    BY <2>1, <2>2, <1>1, <1>3, Zenon DEF DataTypeOK
<1>8. LeaseInv'
  <2>1. /\ \A q \in Req : \A l \in put'[q].expected : Leads(put'[q].target, l)
        /\ \A q \in Req : put'[q].pc = "write" => Leads(put'[q].target, put'[q].key)
    BY <1>3, <1>4, <1>5, Zenon DEF LeaseInv
  <2>2. /\ \A q \in Req : \A l \in put'[q].expected : Leads(put[q].target, l)'
        /\ \A q \in Req : put'[q].pc = "write" => Leads(put[q].target, put[q].key)'
    BY <2>1, <1>3, Zenon DEF LeadsKept
  <2>3. /\ \A m \in Node : \A l \in leases'[m] : Leads(m, l)'
        /\ \A m \in Node : \A keys \in sync'[m] : \A l \in keys : Leads(m, l)'
        /\ \A m \in Node, l \in Key : wal'[m][l] # <<>> => Leads(m, l)'
    BY <1>1, <1>3, Zenon DEF LeaseInv, LeadsKept
  <2> QED
    BY <2>2, <2>3, Zenon DEF LeaseInv
<1>9. GetInv'
  BY <1>1, <1>3, GetKept, Zenon
<1>10. \A m, l : Stored(m, l)' = Stored(m, l)
  BY <1>1, StoredKept, Zenon
<1>11. r \in Stored(n, k)
  BY <1>1, <1>3, Zenon DEF OnceInv, Wrote
<1>12. OnceInv'
  <2>1. \A q \in Req : put'[q].pc \in Unwritten =>
          \A m \in Node, l \in Key : q \notin Stored(m, l)
    <3>1. "count" \notin Unwritten
      BY Zenon DEF Unwritten, Idle
    <3> QED
      BY <3>1, <1>3, <1>4, <1>5 DEF OnceInv
  <2>2. \A q \in Req : Wrote(put'[q]) => q \in Stored(put'[q].target, put'[q].key)
    BY <1>3, <1>4, <1>5, <1>11, Zenon DEF OnceInv
  <2>3. \A q \in Req : Wrote(put[q])' => q \in Stored(put[q].target, put[q].key)'
    BY <2>2, <1>10, Zenon DEF Wrote
  <2>4. OneCopy' /\ UNCHANGED result
    BY <1>1, <1>3 DEF OnceInv, OneCopy
  <2> QED
    BY <2>1, <2>3, <2>4, <1>3, <1>10, Zenon DEF OnceInv
<1> QED
  BY <1>3, <1>7, <1>8, <1>9, <1>12, Zenon DEF DataInv

LEMMA PutMaybeRolloverStep ==
  ASSUME DataInv, NEW r \in Req, PutMaybeRollover(r)
  PROVE  DataInv'
<1> PICK n \in Node, k \in Key : n = put[r].target /\ k = put[r].key
  BY PutTyped, Zenon DEF DataInv
<1> DEFINE p1 == [put[r] EXCEPT !.pc = "reply"]
           p  == [p1 EXCEPT !.ok = TRUE]
<1>1. /\ put[r].pc = "count"
      /\ put' = [put EXCEPT ![r] = p]
      /\ (\E i \in Slot : ProposeRollover(n, k[1], offsets[n][k], i))
           \/ UNCHANGED replicaVars
      /\ UNCHANGED <<leases, sync, offsets, wal, position, result, monitor, getVars>>
  BY Zenon DEF PutMaybeRollover, TryRollover
<1>2. offsets[n][k] \in Nat /\ k[1] \in Topic
  BY KeyFacts DEF DataInv, DataTypeOK
<1>3. MetaMoves
  BY <1>1, <1>2, RolloverMoves, Zenon DEF MetaMoves
<1>4. p1 \in PutState /\ p1.target = n /\ p1.key = k /\ p1.expected = put[r].expected
      /\ p1.pc = "reply"
  BY PutTyped, Zenon DEF DataInv, PutState, PutPC
<1> HIDE DEF p1
<1>5. p \in PutState /\ p.target = n /\ p.key = k /\ p.expected = put[r].expected
      /\ p.pc = "reply"
  BY <1>4, Zenon DEF PutState
<1>6. /\ leases' \in [Node -> SUBSET Key]
      /\ \A m \in Node : \A l \in leases'[m] : Leads(m, l)
      /\ \A l \in p.expected : Leads(p.target, l)
      /\ result' \in [Req -> {"none", "ok", "err"}]
  BY <1>1, <1>5, Zenon DEF DataInv, DataTypeOK, LeaseInv
<1> HIDE DEF p
<1>7. MovesPut(r, p)
  BY <1>1, <1>5, <1>6, Zenon DEF MovesPut, Unwritten, Idle, Wrote
<1> QED
  BY <1>3, <1>5, <1>7, MovesPutKeeps, Zenon

LEMMA PutReplyStep ==
  ASSUME DataInv, NEW r \in Req, PutReply(r)
  PROVE  DataInv'
<1> DEFINE p == [put[r] EXCEPT !.pc = "done"]
           res == IF result[r] # "none" THEN result[r]
                  ELSE IF put[r].ok THEN "ok" ELSE "err"
<1>1. /\ put[r].pc = "reply"
      /\ put' = [put EXCEPT ![r] = p]
      /\ result' = [result EXCEPT ![r] = res]
      /\ UNCHANGED <<replicaVars, leases, sync, offsets, wal, position, monitor, getVars>>
  BY Zenon DEF PutReply, Goto
<1>2. /\ p \in PutState
      /\ p.pc = "done" /\ p.target = put[r].target /\ p.expected = put[r].expected
  BY PutTyped, Zenon DEF DataInv, PutState, PutPC
<1>3. MetaMoves
  BY <1>1, Zenon DEF MetaMoves
<1>4. /\ leases' \in [Node -> SUBSET Key]
      /\ \A m \in Node : \A l \in leases'[m] : Leads(m, l)
      /\ \A l \in p.expected : Leads(p.target, l)
  BY <1>1, <1>2, Zenon DEF DataInv, DataTypeOK, LeaseInv
<1>5. /\ res \in {"none", "ok", "err"}
      /\ res = "ok" => result[r] = "ok" \/ Wrote(put[r])
  BY <1>1, Zenon DEF DataInv, DataTypeOK, Wrote
<1>6. /\ result' \in [Req -> {"none", "ok", "err"}]
      /\ \A q \in Req : result'[q] = "ok" => result[q] = "ok" \/ (q = r /\ Wrote(put[r]))
  BY <1>1, <1>5, Zenon DEF DataInv, DataTypeOK
<1> HIDE DEF p
<1>7. MovesPut(r, p)
  BY <1>1, <1>2, <1>4, <1>6, Zenon DEF MovesPut, Unwritten, Idle, Wrote
<1> QED
  BY <1>2, <1>3, <1>7, MovesPutKeeps, Zenon

LEMMA PutTimeoutStep ==
  ASSUME DataInv, NEW r \in Req, PutTimeout(r)
  PROVE  DataInv'
<1>1. /\ result' = [result EXCEPT ![r] = "err"]
      /\ UNCHANGED <<replicaVars, leases, sync, offsets, wal, position, put, monitor,
                     getVars>>
  BY Zenon DEF PutTimeout
<1>2. put[r] \in PutState /\ put' = [put EXCEPT ![r] = put[r]]
  BY <1>1, PutTyped, Zenon DEF DataInv, DataTypeOK
<1>3. MetaMoves
  BY <1>1, Zenon DEF MetaMoves
<1>4. /\ leases' \in [Node -> SUBSET Key]
      /\ \A m \in Node : \A l \in leases'[m] : Leads(m, l)
      /\ \A l \in put[r].expected : Leads(put[r].target, l)
      /\ put[r].pc = "write" => Leads(put[r].target, put[r].key)
      /\ result' \in [Req -> {"none", "ok", "err"}]
      /\ \A q \in Req : result'[q] = "ok" => result[q] = "ok"
  BY <1>1, Zenon DEF DataInv, DataTypeOK, LeaseInv
<1>5. MovesPut(r, put[r])
  BY <1>1, <1>2, <1>4, Zenon DEF MovesPut
<1> QED
  BY <1>2, <1>3, <1>5, MovesPutKeeps, Zenon

-----------------------------------------------------------------------------
(* What a PUT handler leaves alone.                                        *)

\* A handler that has not written stays where nothing of it is to be counted.
LEMMA UnwrittenIsUncounted ==
  ASSUME DataInv, DataInv', NEW r \in Req, put[r].pc \in Unwritten,
         UNCHANGED <<offsets, wal>>, \A q \in Req \ {r} : put'[q] = put[q]
  PROVE  Uncounted
<1>1. SUFFICES ASSUME put'[r].pc = "record"
               PROVE  FALSE
  BY Zenon DEF Uncounted
<1>2. Wrote(put'[r])
  BY <1>1, Zenon DEF Wrote
<1>3. put'[r] \in PutState
  BY Zenon DEF DataInv, DataTypeOK
<1>4. put'[r].target \in Node /\ put'[r].key \in Key
  BY <1>3, Zenon DEF PutState
<1>5. r \in Stored(put[r].target, put[r].key)'
  BY <1>2, Zenon DEF DataInv, OnceInv
<1>6. r \in Stored(put'[r].target, put'[r].key)
  BY <1>5, Zenon DEF Stored
<1> QED
  BY <1>4, <1>6, Zenon DEF DataInv, OnceInv

\* The steps of a handler that neither write nor count.
LEMMA OtherPutSteps ==
  ASSUME DataInv, DataInv', NEW r \in Req,
         \/ \E n \in Node, t \in Topic : PutStart(r, n, t) \/ PutRefused(r, n, t)
         \/ PutDeliver(r) \/ PutReadOwned(r) \/ PutInstallLeases(r) \/ PutCheckLease(r)
         \/ PutWriteFails(r) \/ PutMaybeRollover(r) \/ PutReply(r) \/ PutTimeout(r)
  PROVE  Uncounted
<1>1. DataTypeOK /\ put[r] \in PutState
  BY Zenon DEF DataInv, DataTypeOK
<1>2. ASSUME NEW n \in Node, NEW t \in Topic, PutStart(r, n, t) \/ PutRefused(r, n, t)
      PROVE  Uncounted
  <2>1. /\ UNCHANGED <<offsets, wal>> /\ put[r].pc \in Unwritten
        /\ \A q \in Req \ {r} : put'[q] = put[q]
    BY <1>1, <1>2, Zenon DEF PutStart, PutRefused, DataTypeOK, Unwritten
  <2> QED
    BY <2>1, UnwrittenIsUncounted, Zenon
<1>3. CASE PutDeliver(r) \/ PutReadOwned(r) \/ PutInstallLeases(r) \/ PutCheckLease(r)
           \/ PutWriteFails(r)
  <2>1. UNCHANGED <<offsets, wal>> /\ put[r].pc \in Unwritten
    BY <1>3, Zenon DEF PutDeliver, PutReadOwned, PutInstallLeases, PutCheckLease, PutWriteFails,
                Goto, Unwritten
  <2>2. \A q \in Req \ {r} : put'[q] = put[q]
    BY <1>1, <1>3, Zenon DEF PutDeliver, PutReadOwned, PutInstallLeases, PutCheckLease,
                PutWriteFails, Goto, AttemptFailed, DataTypeOK
  <2> QED
    BY <2>1, <2>2, UnwrittenIsUncounted, Zenon
<1>4. CASE PutMaybeRollover(r)
  <2> DEFINE p1 == [put[r] EXCEPT !.pc = "reply"]
             p  == [p1 EXCEPT !.ok = TRUE]
  <2>1. p1 \in PutState /\ p1.pc = "reply"
    BY <1>1, Zenon DEF PutState, PutPC
  <2>2. put' = [put EXCEPT ![r] = p] /\ UNCHANGED <<offsets, wal>>
    BY <1>4, Zenon DEF PutMaybeRollover
  <2> HIDE DEF p1
  <2>3. p.pc = "reply"
    BY <2>1, Zenon DEF PutState
  <2> HIDE DEF p
  <2>4. put'[r] = p /\ \A q \in Req \ {r} : put'[q] = put[q]
    BY <1>1, <2>2, Zenon DEF DataTypeOK
  <2> QED
    BY <2>2, <2>3, <2>4, Zenon DEF Uncounted
<1>5. CASE PutReply(r)
  <2>1. /\ UNCHANGED <<offsets, wal>> /\ put'[r].pc = "done"
        /\ \A q \in Req \ {r} : put'[q] = put[q]
    BY <1>1, <1>5, Zenon DEF PutReply, Goto, DataTypeOK, PutState
  <2> QED
    BY <2>1, Zenon DEF Uncounted
<1>6. CASE PutTimeout(r)
  BY <1>6, Zenon DEF PutTimeout, Uncounted
<1> QED
  BY <1>2, <1>3, <1>4, <1>5, <1>6, Zenon

\* A PUT concerns no reader.
LEMMA PutsLeaveReaders ==
  ASSUME PutNext, ~\E r \in Req : PutWrite(r)
  PROVE  UNCHANGED <<wal, position, getVars, restarts>>
<1>1. PICK r \in Req :
        \/ \E n \in Node, t \in Topic : PutStart(r, n, t) \/ PutRefused(r, n, t)
        \/ HandlePut(r)
        \/ PutTimeout(r)
  BY Zenon DEF PutNext
<1>2. CASE \E n \in Node, t \in Topic : PutStart(r, n, t) \/ PutRefused(r, n, t)
  BY <1>2, Zenon DEF PutStart, PutRefused, replicaVars
<1>3. CASE PutDeliver(r) \/ PutReadOwned(r) \/ PutInstallLeases(r) \/ PutCheckLease(r)
  BY <1>3, Zenon DEF PutDeliver, PutReadOwned, PutInstallLeases, PutCheckLease, replicaVars
<1>4. CASE PutWriteFails(r) \/ PutRecord(r) \/ PutReply(r) \/ PutTimeout(r)
  BY <1>4, Zenon DEF PutWriteFails, PutRecord, PutReply, PutTimeout, replicaVars
<1>5. CASE PutMaybeRollover(r)
  BY <1>5, Zenon DEF PutMaybeRollover, TryRollover, ProposeRollover, Propose, replicaVars
<1> QED
  BY <1>1, <1>2, <1>3, <1>4, <1>5, Zenon DEF HandlePut
=============================================================================
