-------------------------- MODULE DataPlaneStates ---------------------------
(***************************************************************************)
(* The parts of the data plane's inductive invariant that speak of what is *)
(* stored, counted and returned, and the ways a step may change that.      *)
(***************************************************************************)
EXTENDS DataPlane

\* Where the handler of a PUT has not appended yet, and where it has.
Unwritten == {Idle, "sent", "lease", "sync", "check", "write"}
Wrote(p)  == p.pc \in {"record", "count"} \/ (p.pc = "reply" /\ p.ok)

OneCopy ==
  \A n, m \in Node, k, l \in Key :
    \A i \in DOMAIN wal[n][k], j \in DOMAIN wal[m][l] :
      wal[n][k][i] = wal[m][l][j] => n = m /\ k = l /\ i = j

\* An entry is there from the moment its handler wrote it, once.
OnceInv ==
  /\ \A r \in Req : put[r].pc \in Unwritten =>
       \A n \in Node, k \in Key : r \notin Stored(n, k)
  /\ \A r \in Req : Wrote(put[r]) => r \in Stored(put[r].target, put[r].key)
  /\ \A r \in Req : result[r] = "ok" => \E n \in Node, k \in Key : r \in Stored(n, k)
  /\ OneCopy

\* The entries under a key that may have been counted.
Recorded(n, k) == {r \in Stored(n, k) : put[r].pc # "record"}

CountInv ==
  \A n \in Node, k \in Key : offsets[n][k] <= Cardinality(Recorded(n, k))

\* The GETs that are about to return entry r.
Holding(r) == {n \in Node : get[n].pc = "reply" /\ get[n].data = r}

\* An entry that was returned, or is about to be, has been passed by the reader
\* of its key as often, but for the times a restart put that reader back.
ReturnInv ==
  \A r \in Req :
    /\ IsFiniteSet(Holding(r))
    /\ \A n \in Node, k \in Key : \A i \in DOMAIN wal[n][k] :
         wal[n][k][i] = r =>
           got[r] + Cardinality(Holding(r))
             <= restarts + IF i <= position[n][k] THEN 1 ELSE 0
    /\ (\A n \in Node, k \in Key : r \notin Stored(n, k))
         => got[r] = 0 /\ Holding(r) = {}

-----------------------------------------------------------------------------
(* The steps.                                                              *)

\* Entry r goes to the end of the segment with key k at node n, and nothing
\* else is stored.
Appends(r, n, k) ==
  /\ wal' \in [Node -> [Key -> Seq(Req)]]
  /\ \A m \in Node, l \in Key : m # n \/ l # k => wal'[m][l] = wal[m][l]
  /\ \A m \in Node, l \in Key : \A i \in DOMAIN wal'[m][l] :
       \/ i \in DOMAIN wal[m][l] /\ wal'[m][l][i] = wal[m][l][i]
       \/ m = n /\ l = k /\ i = Len(wal[n][k]) + 1 /\ wal'[m][l][i] = r
  /\ \A m \in Node, l \in Key : /\ Stored(m, l) \subseteq Stored(m, l)'
                                /\ Stored(m, l)' \subseteq Stored(m, l) \cup {r}
                                /\ r \notin Stored(m, l)
  /\ r \in Stored(n, k)'

\* The handler of PUT r stores its entry.
WritesEntry(r, n, k) ==
  /\ Appends(r, n, k)
  /\ put'[r].pc = "record" /\ \A q \in Req \ {r} : put'[q] = put[q]
  /\ UNCHANGED <<offsets, position, get, got, restarts>>

\* No handler comes to where its entry is stored and not counted.
Uncounted ==
  /\ UNCHANGED <<offsets, wal>>
  /\ \A q \in Req : put'[q].pc = "record" => put[q].pc = "record"

\* Node m consumes the entry at next under key k, for the GET at node n.
Serves(n, m, k, next) ==
  /\ next = position[m][k] + 1
  /\ next \in DOMAIN wal[m][k]
  /\ get[n].pc # "reply"
  /\ get'[n].pc = "reply" /\ get'[n].data = wal[m][k][next]
  /\ \A a \in Node \ {n} : get'[a] = get[a]
  /\ position' = [position EXCEPT ![m][k] = next]
  /\ UNCHANGED <<wal, got, restarts>>

\* The GET at node n returns entry e to its client.
Returns(n, e) ==
  /\ get[n].pc = "reply" /\ get[n].data = e
  /\ get'[n].pc = Idle
  /\ \A a \in Node \ {n} : get'[a] = get[a]
  /\ got' = [got EXCEPT ![e] = @ + 1]
  /\ UNCHANGED <<wal, position, restarts>>

\* No entry is consumed or returned, and no more GETs hold one.
Idles ==
  /\ UNCHANGED <<got, wal, position, restarts>>
  /\ \A r \in Req : Holding(r)' \subseteq Holding(r)

ReadStep ==
  \/ \E n \in Node, m \in Node, k \in Key, next \in Nat : Serves(n, m, k, next)
  \/ \E n \in Node, e \in Req : Returns(n, e)
  \/ Idles
=============================================================================
