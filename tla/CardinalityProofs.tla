------------------------- MODULE CardinalityProofs --------------------------
(***************************************************************************)
(* Proofs that count: the steps of the data plane preserve what it says of *)
(* counted and returned entries, and the quorums of consecutive            *)
(* memberships meet, for any finite set of voters.                         *)
(***************************************************************************)
EXTENDS DataPlaneStates, MembershipChange, FiniteSetTheorems, TLAPS

-----------------------------------------------------------------------------
(* What is counted is in the log, and what is returned was consumed: the   *)
(* steps of DataPlaneStates preserve CountInv and ReturnInv.               *)

LEMMA SameStored ==
  ASSUME UNCHANGED wal
  PROVE  \A n, k : Stored(n, k)' = Stored(n, k)
BY Zenon DEF Stored

\* A step that stores nothing keeps the invariant if it counts nothing and no
\* handler goes back to where its entry is not counted.
LEMMA CountKept ==
  ASSUME DataTypeOK, CountInv, wal' = wal,
         \A n \in Node, k \in Key : offsets'[n][k] \in {0, offsets[n][k]},
         \A r \in Req : put'[r].pc = "record" => put[r].pc = "record"
  PROVE  CountInv'
<1> SUFFICES ASSUME NEW n \in Node, NEW k \in Key
             PROVE  offsets'[n][k] <= Cardinality(Recorded(n, k)')
  BY Zenon DEF CountInv
<1>1. Stored(n, k) \subseteq Req /\ Stored(n, k)' = Stored(n, k)
  BY SameStored DEF DataTypeOK, Stored
<1>2. Recorded(n, k) \subseteq Recorded(n, k)' /\ Recorded(n, k)' \subseteq Req
  BY <1>1, Zenon DEF Recorded
<1>3. IsFiniteSet(Recorded(n, k)')
  BY <1>2, FS_Subset, DataPlaneAssumption, Zenon
<1>4. /\ IsFiniteSet(Recorded(n, k))
      /\ Cardinality(Recorded(n, k)) <= Cardinality(Recorded(n, k)')
  BY <1>2, <1>3, FS_Subset, Zenon
<1>5. /\ Cardinality(Recorded(n, k)) \in Nat
      /\ Cardinality(Recorded(n, k)') \in Nat
  BY <1>3, <1>4, FS_CardinalityType, Zenon
<1>6. offsets[n][k] \in Nat /\ offsets[n][k] <= Cardinality(Recorded(n, k))
  BY Zenon DEF DataTypeOK, CountInv
<1> QED
  BY <1>4, <1>5, <1>6

\* The handler that stores an entry has not counted it yet.
LEMMA AppendKeepsCount ==
  ASSUME DataTypeOK, CountInv, NEW r \in Req, NEW n \in Node, NEW k \in Key, Appends(r, n, k),
         UNCHANGED offsets,
         put'[r].pc = "record", \A q \in Req \ {r} : put'[q] = put[q]
  PROVE  CountInv'
<1>5. \A m \in Node, l \in Key : /\ Stored(m, l) \subseteq Stored(m, l)'
                                 /\ Stored(m, l)' \subseteq Stored(m, l) \cup {r}
                                 /\ r \notin Stored(m, l)
  BY Zenon DEF Appends
<1>6. ASSUME NEW m \in Node, NEW l \in Key
      PROVE  Recorded(m, l)' = Recorded(m, l)
  <2>1. Stored(m, l) \subseteq Req
    BY DEF DataTypeOK, Stored
  <2> QED
    BY <2>1, <1>5, Zenon DEF Recorded
<1> QED
  BY <1>6, Zenon DEF CountInv

\* The entry that is counted was not counted before.
LEMMA PutRecordKeepsCount ==
  ASSUME DataTypeOK, OnceInv, CountInv, NEW r \in Req, PutRecord(r)
  PROVE  CountInv'
<1>1. put[r] \in PutState
  BY Zenon DEF DataTypeOK
<1> PICK n \in Node, k \in Key : n = put[r].target /\ k = put[r].key
  BY <1>1, Zenon DEF PutState
<1>2. /\ put[r].pc = "record" /\ wal' = wal
      /\ put' = [put EXCEPT ![r] = [put[r] EXCEPT !.pc = "count"]]
      /\ offsets' = [offsets EXCEPT ![n][k] = offsets[n][k] + 1]
  BY Zenon DEF PutRecord, Goto
<1>3. put'[r].pc = "count" /\ \A q \in Req \ {r} : put'[q] = put[q]
  BY <1>1, <1>2, Zenon DEF DataTypeOK, PutState
<1>4. /\ offsets[n][k] \in Nat
      /\ offsets'[n][k] = offsets[n][k] + 1
      /\ \A m \in Node, l \in Key : m # n \/ l # k => offsets'[m][l] = offsets[m][l]
  <2>1. offsets \in [Node -> [Key -> Nat]]
    BY <1>1, Zenon DEF DataTypeOK
  <2> QED
    BY <1>2, <2>1, Zenon
<1>5. r \in Stored(n, k)
  BY <1>1, <1>2, Zenon DEF OnceInv, Wrote
<1>6. \A m, l : Stored(m, l)' = Stored(m, l)
  BY <1>2, SameStored, Zenon
<1> SUFFICES ASSUME NEW m \in Node, NEW l \in Key
             PROVE  offsets'[m][l] <= Cardinality(Recorded(m, l)')
  BY Zenon DEF CountInv
<1> DEFINE old == Recorded(m, l)
           new == Recorded(m, l)'
<1>7. Stored(m, l) \subseteq Req
  BY <1>1 DEF DataTypeOK, Stored
<1>8. /\ old \subseteq new /\ new \subseteq Req /\ r \notin old
      /\ m = n /\ l = k => new = old \cup {r}
  BY <1>2, <1>3, <1>5, <1>6, <1>7 DEF Recorded
<1>9. offsets[m][l] \in Nat /\ offsets[m][l] <= Cardinality(old)
  BY <1>1 DEF DataTypeOK, CountInv
<1> HIDE DEF old, new
<1>10. IsFiniteSet(new)
  BY <1>8, FS_Subset, DataPlaneAssumption, Zenon
<1>11. IsFiniteSet(old) /\ Cardinality(old) <= Cardinality(new)
  BY <1>8, <1>10, FS_Subset, Zenon
<1>12. Cardinality(old) \in Nat /\ Cardinality(new) \in Nat
  BY <1>10, <1>11, FS_CardinalityType, Zenon
<1>13. CASE m = n /\ l = k
  <2>1. Cardinality(new) = Cardinality(old) + 1
    BY <1>8, <1>11, <1>13, FS_AddElement, Zenon
  <2> QED
    BY <2>1, <1>4, <1>9, <1>12, <1>13 DEF new
<1>14. CASE m # n \/ l # k
  BY <1>4, <1>9, <1>11, <1>12, <1>14 DEF new
<1> QED
  BY <1>13, <1>14, Zenon

\* A restart forgets the counts of its node.
LEMMA RestartKeepsCount ==
  ASSUME DataTypeOK, CountInv, NEW n \in Node, NodeRestart(n)
  PROVE  CountInv'
<1>1. wal' = wal
  BY Zenon DEF NodeRestart
<1>2. \A m \in Node, k \in Key : offsets'[m][k] \in {0, offsets[m][k]}
  <2>1. offsets \in [Node -> [Key -> Nat]]
    BY <1>1, Zenon DEF DataTypeOK
  <2>2. offsets' = [offsets EXCEPT ![n] = [k \in Key |-> 0]]
    BY Zenon DEF NodeRestart
  <2> QED
    BY <2>1, <2>2, Zenon
<1>3. ASSUME NEW r \in Req, put'[r].pc = "record"
      PROVE  put[r].pc = "record"
  <2>1. put'[r] = [put[r] EXCEPT !.pc = "done"] \/ put'[r] = put[r]
    BY Zenon DEF NodeRestart
  <2>2. put[r] \in PutState
    BY <1>1, Zenon DEF DataTypeOK
  <2>3. [put[r] EXCEPT !.pc = "done"].pc = "done"
    BY <2>2, Zenon DEF PutState
  <2> QED
    BY <1>3, <2>1, <2>3, Zenon
<1> QED
  BY <1>1, <1>2, <1>3, CountKept, Zenon

\* A key holds as many entries as positions.
LEMMA CountsAreStored ==
  ASSUME DataTypeOK, CountInv
  PROVE  CountsNeverExceedLog
<1> SUFFICES ASSUME NEW n \in Node, NEW k \in Key
             PROVE  offsets[n][k] <= Len(wal[n][k])
  BY Zenon DEF CountsNeverExceedLog
<1> DEFINE s == wal[n][k]
<1>1. s \in Seq(Req) /\ offsets[n][k] \in Nat
  BY DEF DataTypeOK
<1>2. Len(s) \in Nat /\ DOMAIN s = 1..Len(s)
  BY <1>1
<1>3. s \in Surjection(1..Len(s), Stored(n, k))
  BY <1>1, <1>2 DEF Stored, Surjection
<1>4. IsFiniteSet(1..Len(s)) /\ Cardinality(1..Len(s)) = Len(s)
  BY <1>2, FS_Interval
<1>5. IsFiniteSet(Stored(n, k)) /\ Cardinality(Stored(n, k)) <= Len(s)
  BY <1>3, <1>4, FS_Surjection
<1>6. Recorded(n, k) \subseteq Stored(n, k)
  BY Zenon DEF Recorded
<1>7. /\ Cardinality(Recorded(n, k)) <= Cardinality(Stored(n, k))
      /\ Cardinality(Recorded(n, k)) \in Nat /\ Cardinality(Stored(n, k)) \in Nat
  BY <1>5, <1>6, FS_Subset, FS_CardinalityType, Zenon
<1>8. offsets[n][k] <= Cardinality(Recorded(n, k))
  BY Zenon DEF CountInv
<1> HIDE DEF s
<1>9. offsets[n][k] <= Len(s)
  BY <1>1, <1>2, <1>5, <1>7, <1>8
<1> QED
  BY <1>9, Zenon DEF s

LEMMA CountInvInit == DataInit => CountInv
<1> SUFFICES ASSUME DataIdle
             PROVE  CountInv
  BY Zenon DEF DataInit
<1>1. \A n \in Node, k \in Key : Recorded(n, k) = {} /\ offsets[n][k] = 0
  BY DEF Recorded, Stored, DataIdle
<1>2. Cardinality({}) = 0
  BY FS_EmptySet, Zenon
<1> QED
  BY <1>1, <1>2 DEF CountInv

-----------------------------------------------------------------------------
(* What is returned.                                                       *)

LEMMA ReturnKept ==
  ASSUME ReturnInv, UNCHANGED <<get, got, wal, position, restarts>>
  PROVE  ReturnInv'
<1>1. \A r : Holding(r)' = Holding(r)
  BY Zenon DEF Holding
<1> QED
  BY <1>1, SameStored, Zenon DEF ReturnInv

\* Fewer GETs hold an entry.
LEMMA HoldingShrinks ==
  ASSUME DataTypeOK, ReturnInv, restarts \in Nat, UNCHANGED <<got, wal, position, restarts>>,
         \A r \in Req : Holding(r)' \subseteq Holding(r)
  PROVE  ReturnInv'
<1> SUFFICES ASSUME NEW r \in Req
             PROVE  /\ IsFiniteSet(Holding(r)')
                    /\ \A n \in Node, k \in Key : \A i \in DOMAIN wal[n][k] :
                         wal[n][k][i] = r =>
                           got[r] + Cardinality(Holding(r)')
                             <= restarts + IF i <= position[n][k] THEN 1 ELSE 0
                    /\ (\A n \in Node, k \in Key : r \notin Stored(n, k))
                         => got[r] = 0 /\ Holding(r)' = {}
  BY SameStored, Zenon DEF ReturnInv
<1>1. IsFiniteSet(Holding(r)) /\ Holding(r)' \subseteq Holding(r)
  BY Zenon DEF ReturnInv
<1>2. /\ IsFiniteSet(Holding(r)')
      /\ Cardinality(Holding(r)') <= Cardinality(Holding(r))
      /\ Cardinality(Holding(r)') \in Nat /\ Cardinality(Holding(r)) \in Nat
  BY <1>1, FS_Subset, FS_CardinalityType, Zenon
<1>3. got[r] \in Nat
  BY Zenon DEF DataTypeOK
<1>4. ASSUME NEW n \in Node, NEW k \in Key, NEW i \in DOMAIN wal[n][k], wal[n][k][i] = r
      PROVE  got[r] + Cardinality(Holding(r)')
               <= restarts + IF i <= position[n][k] THEN 1 ELSE 0
  <2>1. got[r] + Cardinality(Holding(r))
          <= restarts + IF i <= position[n][k] THEN 1 ELSE 0
    BY <1>4, Zenon DEF ReturnInv
  <2>2. (IF i <= position[n][k] THEN 1 ELSE 0) \in Nat
    BY Zenon
  <2> HIDE DEF Holding
  <2> QED
    BY <1>2, <1>3, <2>1, <2>2
<1>5. (\A n \in Node, k \in Key : r \notin Stored(n, k))
        => got[r] = 0 /\ Holding(r)' = {}
  BY <1>1, Zenon DEF ReturnInv
<1> QED
  BY <1>2, <1>4, <1>5, Zenon

LEMMA ServeReturns ==
  ASSUME DataTypeOK, OneCopy, ReturnInv, restarts \in Nat,
         NEW n \in Node, NEW m \in Node, NEW k \in Key, NEW next \in Nat,
         Serves(n, m, k, next)
  PROVE  ReturnInv'
<1>1. DataTypeOK /\ OneCopy /\ restarts \in Nat
  BY Zenon
<1>2. PICK e \in Req : e = wal[m][k][next]
  BY <1>1 DEF DataTypeOK, Serves
<1>3. /\ \A r \in Req \ {e} : Holding(r)' = Holding(r)
      /\ Holding(e)' = Holding(e) \cup {n} /\ n \notin Holding(e)
  BY <1>1, <1>2, Zenon DEF Holding, DataTypeOK, Serves
<1>4. /\ position[m][k] \in Nat /\ position'[m][k] = next
      /\ \A a \in Node, b \in Key : /\ position[a][b] \in Nat /\ position'[a][b] \in Nat
                                    /\ position[a][b] <= position'[a][b]
  <2>1. \A a \in Node, b \in Key :
          position'[a][b] = IF a = m /\ b = k THEN next ELSE position[a][b]
    BY <1>1, Zenon DEF DataTypeOK, Serves
  <2>2. \A a \in Node, b \in Key : position[a][b] \in Nat
    BY <1>1 DEF DataTypeOK
  <2> QED
    BY <2>1, <2>2 DEF Serves
<1>5. \A r \in Req : IsFiniteSet(Holding(r)) /\ Cardinality(Holding(r)) \in Nat
                     /\ got[r] \in Nat
  BY <1>1, FS_CardinalityType, Zenon DEF ReturnInv, DataTypeOK
<1>6. /\ IsFiniteSet(Holding(e)')
      /\ Cardinality(Holding(e)') = Cardinality(Holding(e)) + 1
  BY <1>3, <1>5, FS_AddElement
<1>7. e \in Stored(m, k)
  BY <1>2, Zenon DEF Stored, Serves
<1> SUFFICES ASSUME NEW r \in Req
             PROVE  /\ IsFiniteSet(Holding(r)')
                    /\ \A a \in Node, b \in Key : \A i \in DOMAIN wal[a][b] :
                         wal[a][b][i] = r =>
                           got[r] + Cardinality(Holding(r)')
                             <= restarts + IF i <= position'[a][b] THEN 1 ELSE 0
                    /\ (\A a \in Node, b \in Key : r \notin Stored(a, b))
                         => got[r] = 0 /\ Holding(r)' = {}
  BY SameStored DEF ReturnInv, Serves
<1>8. CASE r = e
  <2>1. ASSUME NEW a \in Node, NEW b \in Key, NEW i \in DOMAIN wal[a][b], wal[a][b][i] = e
        PROVE  got[e] + Cardinality(Holding(e)')
                 <= restarts + IF i <= position'[a][b] THEN 1 ELSE 0
    <3>1. a = m /\ b = k /\ i = next
      BY <1>1, <1>2, <2>1 DEF OneCopy, Serves
    <3>2. ~(next <= position[m][k]) /\ next <= position'[m][k]
      BY <1>4 DEF Serves
    <3>3. got[e] + Cardinality(Holding(e)) <= restarts
      BY <1>1, <1>2, <3>1, <3>2 DEF ReturnInv
    <3> QED
      BY <1>1, <1>5, <1>6, <3>1, <3>2, <3>3
  <2> QED
    BY <1>6, <1>7, <1>8, <2>1, Zenon
<1>9. CASE r # e
  <2>1. Holding(r)' = Holding(r)
    BY <1>3, <1>9, Zenon
  <2>2. ASSUME NEW a \in Node, NEW b \in Key, NEW i \in DOMAIN wal[a][b], wal[a][b][i] = r
        PROVE  got[r] + Cardinality(Holding(r))
                 <= restarts + IF i <= position'[a][b] THEN 1 ELSE 0
    <3>1. got[r] + Cardinality(Holding(r))
            <= restarts + IF i <= position[a][b] THEN 1 ELSE 0
      BY <1>1, <2>2, Zenon DEF ReturnInv
    <3>2. wal[a][b] \in Seq(Req)
      BY <1>1 DEF DataTypeOK
    <3>3. i \in Nat
      BY <3>2
    <3> QED
      BY <1>1, <1>4, <1>5, <3>1, <3>3
  <2> QED
    BY <1>1, <1>5, <2>1, <2>2, Zenon DEF ReturnInv
<1> QED
  BY <1>8, <1>9, Zenon

LEMMA ReplyReturns ==
  ASSUME DataTypeOK, ReturnInv, restarts \in Nat, NEW n \in Node, NEW e \in Req, Returns(n, e)
  PROVE  ReturnInv'
<1>1. /\ \A r \in Req \ {e} : Holding(r)' = Holding(r)
      /\ Holding(e)' = Holding(e) \ {n} /\ n \in Holding(e)
  BY Zenon DEF Holding, Returns, Idle
<1>2. \A r \in Req : IsFiniteSet(Holding(r)) /\ Cardinality(Holding(r)) \in Nat
                     /\ got[r] \in Nat
  BY FS_CardinalityType, Zenon DEF ReturnInv, DataTypeOK
<1>3. /\ IsFiniteSet(Holding(e)')
      /\ Cardinality(Holding(e)') = Cardinality(Holding(e)) - 1
  BY <1>1, <1>2, FS_RemoveElement
<1>4. got'[e] = got[e] + 1 /\ \A r \in Req \ {e} : got'[r] = got[r]
  BY Zenon DEF Returns, DataTypeOK
<1>5. got'[e] + Cardinality(Holding(e)') = got[e] + Cardinality(Holding(e))
  BY <1>2, <1>3, <1>4
<1>6. ~(\A a \in Node, b \in Key : e \notin Stored(a, b))
  BY <1>1, Zenon DEF ReturnInv
<1> SUFFICES ASSUME NEW r \in Req
             PROVE  /\ IsFiniteSet(Holding(r)')
                    /\ \A a \in Node, b \in Key : \A i \in DOMAIN wal[a][b] :
                         wal[a][b][i] = r =>
                           got'[r] + Cardinality(Holding(r)')
                             <= restarts + IF i <= position[a][b] THEN 1 ELSE 0
                    /\ (\A a \in Node, b \in Key : r \notin Stored(a, b))
                         => got'[r] = 0 /\ Holding(r)' = {}
  BY SameStored DEF ReturnInv, Returns
<1>7. CASE r = e
  BY <1>3, <1>5, <1>6, <1>7, Zenon DEF ReturnInv
<1>8. CASE r # e
  <2>1. got'[r] = got[r] /\ Holding(r)' = Holding(r)
    BY <1>1, <1>4, <1>8, Zenon
  <2> QED
    BY <2>1, Zenon DEF ReturnInv
<1> QED
  BY <1>7, <1>8, Zenon

\* An entry that is stored has not been returned yet.
LEMMA AppendKeepsReturn ==
  ASSUME DataTypeOK, ReturnInv, restarts \in Nat,
         NEW r \in Req, NEW n \in Node, NEW k \in Key, Appends(r, n, k),
         UNCHANGED <<position, get, got, restarts>>
  PROVE  ReturnInv'
<1>4. \A q : Holding(q)' = Holding(q)
  BY Zenon DEF Holding
<1>5. \A m \in Node, l \in Key : Stored(m, l) \subseteq Stored(m, l)' /\ r \notin Stored(m, l)
  BY Zenon DEF Appends
<1>6. got[r] = 0 /\ Holding(r) = {}
  BY <1>5, Zenon DEF ReturnInv
<1>7. ASSUME NEW q \in Req, NEW m \in Node, NEW l \in Key, NEW i \in DOMAIN wal'[m][l],
             wal'[m][l][i] = q
      PROVE  got[q] + Cardinality(Holding(q))
               <= restarts + IF i <= position[m][l] THEN 1 ELSE 0
  <2>1. CASE i \in DOMAIN wal[m][l] /\ wal'[m][l][i] = wal[m][l][i]
    BY <1>7, <2>1, Zenon DEF ReturnInv
  <2>2. CASE q = r
    <3>1. got[q] + Cardinality(Holding(q)) = 0
      BY <1>6, <2>2, FS_EmptySet
    <3>2. (IF i <= position[m][l] THEN 1 ELSE 0) \in Nat
      BY Zenon
    <3> QED
      BY <3>1, <3>2
  <2> QED
    BY <1>7, <2>1, <2>2, Zenon DEF Appends
<1>8. ASSUME NEW q \in Req, \A m \in Node, l \in Key : q \notin Stored(m, l)'
      PROVE  got[q] = 0 /\ Holding(q) = {}
  BY <1>5, <1>8, Zenon DEF ReturnInv
<1> QED
  BY <1>4, <1>7, <1>8, Zenon DEF ReturnInv

\* A restart may put the readers of its node back: what they passed may be
\* returned once more.
LEMMA RestartKeepsReturn ==
  ASSUME DataTypeOK, ReturnInv, restarts \in Nat, restarts' = restarts + 1,
         NEW n \in Node, NodeRestart(n)
  PROVE  ReturnInv'
<1>1. DataTypeOK /\ restarts \in Nat /\ restarts' = restarts + 1
  BY Zenon
<1>2. wal' = wal /\ got' = got /\ get' = [get EXCEPT ![n] = IdleGet]
  BY Zenon DEF NodeRestart
<1>3. \A m \in Node, k \in Key : \A i : (IF i <= position'[m][k] THEN 1 ELSE 0) \in Nat
  BY Zenon
<1> SUFFICES ASSUME NEW r \in Req
             PROVE  /\ IsFiniteSet(Holding(r)')
                    /\ \A m \in Node, k \in Key : \A i \in DOMAIN wal[m][k] :
                         wal[m][k][i] = r =>
                           got[r] + Cardinality(Holding(r)')
                             <= restarts' + IF i <= position'[m][k] THEN 1 ELSE 0
                    /\ (\A m \in Node, k \in Key : r \notin Stored(m, k))
                         => got[r] = 0 /\ Holding(r)' = {}
  BY <1>2, SameStored, Zenon DEF ReturnInv
<1>4. Holding(r)' \subseteq Holding(r)
  BY <1>1, <1>2, Zenon DEF Holding, DataTypeOK, IdleGet, Idle
<1>5. /\ IsFiniteSet(Holding(r)')
      /\ Cardinality(Holding(r)') <= Cardinality(Holding(r))
      /\ Cardinality(Holding(r)') \in Nat /\ Cardinality(Holding(r)) \in Nat
  BY <1>4, FS_Subset, FS_CardinalityType, Zenon DEF ReturnInv
<1>6. got[r] \in Nat
  BY <1>1, Zenon DEF DataTypeOK
<1>7. ASSUME NEW m \in Node, NEW k \in Key, NEW i \in DOMAIN wal[m][k], wal[m][k][i] = r
      PROVE  got[r] + Cardinality(Holding(r)')
               <= restarts' + IF i <= position'[m][k] THEN 1 ELSE 0
  <2>1. got[r] + Cardinality(Holding(r)) <= restarts + 1
    BY <1>1, <1>5, <1>6, <1>7 DEF ReturnInv
  <2>2. PICK h \in Nat, c \in Nat : h = Cardinality(Holding(r)') /\ c = Cardinality(Holding(r))
    BY <1>5, Zenon
  <2>3. got[r] + h <= restarts'
    BY <1>1, <1>5, <1>6, <2>1, <2>2
  <2> QED
    BY <1>1, <1>3, <1>6, <2>2, <2>3
<1>8. (\A m \in Node, k \in Key : r \notin Stored(m, k)) => got[r] = 0 /\ Holding(r)' = {}
  BY <1>4, Zenon DEF ReturnInv
<1> QED
  BY <1>5, <1>7, <1>8, Zenon

\* What was returned is stored, and its position counts once.
LEMMA ReturnsAreBounded ==
  ASSUME DataTypeOK, ReturnInv, restarts \in Nat
  PROVE  ReturnedAtMostOnce
<1> SUFFICES ASSUME NEW r \in Req
             PROVE  got[r] <= 1 + restarts
  BY Zenon DEF ReturnedAtMostOnce
<1>1. got[r] \in Nat /\ restarts \in Nat
  BY Zenon DEF DataTypeOK
<1>2. IsFiniteSet(Holding(r)) /\ Cardinality(Holding(r)) \in Nat
  BY <1>1, FS_CardinalityType, Zenon DEF ReturnInv
<1>3. CASE \A n \in Node, k \in Key : r \notin Stored(n, k)
  BY <1>1, <1>3 DEF ReturnInv
<1>4. CASE \E n \in Node, k \in Key : r \in Stored(n, k)
  <2>1. PICK n \in Node, k \in Key : \E i \in DOMAIN wal[n][k] : wal[n][k][i] = r
    BY <1>4, Zenon DEF Stored
  <2>2. got[r] + Cardinality(Holding(r)) <= restarts + 1
    BY <1>1, <1>2, <2>1 DEF ReturnInv
  <2> QED
    BY <1>1, <1>2, <2>2
<1> QED
  BY <1>3, <1>4, Zenon

LEMMA ReturnInvInit == DataInit => ReturnInv
<1> SUFFICES ASSUME DataIdle
             PROVE  ReturnInv
  BY Zenon DEF DataInit
<1>1. \A r \in Req : Holding(r) = {} /\ got[r] = 0
  BY Zenon DEF Holding, DataIdle, IdleGet, Idle
<1>2. \A n \in Node, k \in Key : DOMAIN wal[n][k] = {}
  BY DEF DataIdle
<1> QED
  BY <1>1, <1>2, FS_EmptySet, Zenon DEF ReturnInv

-----------------------------------------------------------------------------
(* Memberships *)

\* Every membership has a configuration.
ConfInv ==
  /\ conf = [configs |-> conf.configs, nodes |-> conf.nodes]
  /\ conf.configs \in Seq(SUBSET Voters) /\ conf.configs # <<>>

\* Two majorities of one configuration have a member in common.
LEMMA MajoritiesMeet ==
  ASSUME NEW config, config \subseteq Voters, NEW p, NEW q, IsMajority(config, p), IsMajority(config, q)
  PROVE  p \cap q # {}
<1>1. IsFiniteSet(config)
  BY VotersAssumption, FS_Subset, Zenon
<1>2. IsFiniteSet(config \cap p) /\ IsFiniteSet(config \cap q)
  BY <1>1, FS_Intersection, Zenon
<1>3. Cardinality(config) \in Nat /\ Cardinality(config \cap p) \in Nat /\ Cardinality(config \cap q) \in Nat
  BY <1>1, <1>2, FS_CardinalityType, Zenon
<1>4. Cardinality(config \cap p) + Cardinality(config \cap q) > Cardinality(config)
  BY <1>3 DEF IsMajority
<1>5. (config \cap p) \cap (config \cap q) # {}
  BY <1>1, <1>4, FS_MajoritiesIntersect, Zenon
<1> QED BY <1>5, Zenon

\* find_coherent: the new configurations share one with the old ones.
LEMMA CoherentShares ==
  ASSUME NEW configs \in Seq(SUBSET Voters), configs # <<>>, NEW goal \in SUBSET Voters
  PROVE  LET new == find_coherent(configs, goal)
         IN  /\ new \in Seq(SUBSET Voters) /\ new # <<>>
             /\ \E i \in DOMAIN configs, j \in DOMAIN new : configs[i] = new[j]
<1> DEFINE last == configs[Len(configs)]
<1>1. Len(configs) \in 1..Len(configs) /\ DOMAIN configs = 1..Len(configs) /\ last \in SUBSET Voters
  OBVIOUS
<1>2. CASE \E i \in DOMAIN configs : configs[i] = goal
  <2>1. find_coherent(configs, goal) = <<goal>>
    BY <1>2, Zenon DEF find_coherent
  <2>2. <<goal>> \in Seq(SUBSET Voters) /\ <<goal>> # <<>> /\ 1 \in DOMAIN <<goal>> /\ <<goal>>[1] = goal
    OBVIOUS
  <2> QED BY <1>2, <2>1, <2>2, Zenon
<1>3. CASE ~\E i \in DOMAIN configs : configs[i] = goal
  <2>1. find_coherent(configs, goal) = <<last, goal>>
    BY <1>3, Zenon DEF find_coherent
  <2> HIDE DEF last
  <2>2. /\ <<last, goal>> \in Seq(SUBSET Voters) /\ <<last, goal>> # <<>>
        /\ 1 \in DOMAIN <<last, goal>> /\ <<last, goal>>[1] = last
    BY <1>1
  <2>3. last = configs[Len(configs)]
    BY Zenon DEF last
  <2> QED BY <1>1, <2>1, <2>2, <2>3, Zenon
<1> QED BY <1>2, <1>3, Zenon

\* A change keeps a configuration of the membership it changes.
LEMMA ChangeShares ==
  ASSUME ConfInv, NEW op \in ChangeOps, NEW who \in SUBSET Voters, NEW retain \in BOOLEAN,
         Change([op |-> op, ids |-> who], retain)
  PROVE  ConfInv' /\ is_coherent_with(conf, conf')
<1> DEFINE c == [op |-> op, ids |-> who]
           goal == TargetVoters(LastConfig(conf), c)
           new == find_coherent(conf.configs, goal)
<1>1. LastConfig(conf) \in SUBSET Voters
  BY DEF ConfInv, LastConfig
<1>2. goal \in SUBSET Voters
  BY <1>1, Zenon DEF TargetVoters
<1>3. /\ new \in Seq(SUBSET Voters) /\ new # <<>>
      /\ \E i \in DOMAIN conf.configs, j \in DOMAIN new : conf.configs[i] = new[j]
  <2> HIDE DEF goal
  <2> QED BY <1>2, CoherentShares, Zenon DEF ConfInv
<1>4. conf' = change(conf, c, retain)
  BY Zenon DEF Change
<1>5. conf'.configs = new /\ conf' = [configs |-> conf'.configs, nodes |-> conf'.nodes]
  BY <1>4, Zenon DEF change, next_coherent, ConfInv
<1> HIDE DEF new, goal
<1>6. ConfInv'
  BY <1>3, <1>5, Zenon DEF ConfInv
<1>7. is_coherent_with(conf, conf')
  BY <1>3, <1>5, Zenon DEF is_coherent_with
<1> QED BY <1>6, <1>7, Zenon

LEMMA ConfInvAlways == ConfSpec => []ConfInv
<1>1. ConfInit => ConfInv
  <2> SUFFICES ASSUME NEW voters \in SUBSET Voters \ {{}}, conf = Uniform(voters, Voters)
               PROVE  ConfInv
    BY Zenon DEF ConfInit
  <2> QED BY DEF Uniform, ConfInv
<1>2. ConfInv /\ [ConfNext]_conf => ConfInv'
  <2> SUFFICES ASSUME ConfInv, [ConfNext]_conf PROVE ConfInv'
    BY Zenon
  <2>1. CASE ConfNext
    BY <2>1, ChangeShares, Zenon DEF ConfNext
  <2>2. CASE UNCHANGED conf
    BY <2>2, Zenon DEF ConfInv
  <2> QED BY <2>1, <2>2, Zenon
<1> QED BY <1>1, <1>2, PTL DEF ConfSpec

\* Membership::change: for any set of nodes, however often the membership is
\* changed, every quorum of a membership meets every quorum of the next one.
THEOREM ChangesOverlap == ConfSpec => QuorumsOverlap
<1>1. ConfInv /\ [ConfNext]_conf => [NextOverlaps]_conf
  <2> SUFFICES ASSUME ConfInv, ConfNext, NEW p \in SUBSET Voters, NEW q \in SUBSET Voters,
                      is_quorum(conf, p), is_quorum(conf', q)
               PROVE  p \cap q # {}
    BY Zenon DEF NextOverlaps
  <2>1. is_coherent_with(conf, conf')
    BY ChangeShares, Zenon DEF ConfNext
  <2>2. PICK i \in DOMAIN conf.configs, j \in DOMAIN conf'.configs : conf.configs[i] = conf'.configs[j]
    BY <2>1, Zenon DEF is_coherent_with
  <2>3. conf.configs[i] \subseteq Voters
    BY <2>2 DEF ConfInv
  <2>4. IsMajority(conf.configs[i], p) /\ IsMajority(conf.configs[i], q)
    BY <2>2, Zenon DEF is_quorum
  <2> QED BY <2>3, <2>4, MajoritiesMeet, Zenon
<1> QED BY <1>1, ConfInvAlways, PTL DEF ConfSpec, QuorumsOverlap
=============================================================================
