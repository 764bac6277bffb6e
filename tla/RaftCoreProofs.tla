--------------------------- MODULE RaftCoreProofs ---------------------------
(***************************************************************************)
(* The steps of RaftCore, of the state machine worker and of the other tasks*)
(* keep the invariant of a Raft node.                                      *)
(***************************************************************************)
EXTENDS RaftApiStates, TLAPS

LEMMA QueueTaken ==
  ASSUME NEW q \in Seq(Calls), q # <<>>, NoneTwice(q)
  PROVE  /\ Tail(q) \in Seq(Calls) /\ NoneTwice(Tail(q)) /\ Head(q) \in CallsIn(q)
         /\ Head(q) \in Calls /\ CallsIn(Tail(q)) \subseteq CallsIn(q) \ {Head(q)}
<1> DEFINE p == Tail(q)
<1>1. /\ p \in Seq(Calls) /\ Len(p) = Len(q) - 1 /\ Len(q) \in Nat /\ Len(q) > 0
      /\ \A i \in 1..Len(p) : p[i] = q[i + 1]
  OBVIOUS
<1>2. Head(q) = q[1] /\ q[1] \in Calls
  OBVIOUS
<1> HIDE DEF p
<1>3. NoneTwice(p)
  BY <1>1 DEF NoneTwice
<1>4. CallsIn(p) \subseteq CallsIn(q) \ {q[1]}
  <2> SUFFICES ASSUME NEW i \in 1..Len(p) PROVE p[i] \in CallsIn(q) /\ p[i] # q[1]
    BY Zenon DEF CallsIn
  <2>1. i + 1 \in 1..Len(q) /\ 1 \in 1..Len(q) /\ i + 1 # 1 /\ p[i] = q[i + 1]
    BY <1>1
  <2> QED BY <2>1, Zenon DEF CallsIn, NoneTwice
<1> QED BY <1>1, <1>2, <1>3, <1>4 DEF p, CallsIn

\* What the invariant says of a call, but for the answer.
SameButReply(d) ==
  /\ call'[d].kind = call[d].kind /\ call'[d].pc = call[d].pc /\ call'[d].res = call[d].res
  /\ call'[d].want = call[d].want /\ call'[d].acked = call[d].acked /\ call'[d].seen = call[d].seen

\* A call that is not answered now.
Untold(d) ==
  /\ SameButReply(d) /\ call'[d].reply = call[d].reply
  /\ SenderHeld(d)' => SenderHeld(d)
  /\ d \in checks' => d \in checks

SameReplies == \A d \in Calls : SameButReply(d) /\ call'[d].reply = call[d].reply

LEMMA UntoldKeeps ==
  ASSUME ApiInv, NEW d \in Calls, Untold(d), smApplied' \in Nat, smApplied <= smApplied'
  PROVE  ToldInv(d)'
<1>1. ToldInv(d) /\ call[d] \in CallRecord /\ smApplied \in Nat
  BY Zenon DEF ApiInv, ApiTypes
<1>2. call[d].want \in Nat /\ call[d].seen \in Nat /\ call[d].acked \subseteq Nat
  BY <1>1, Zenon DEF CallRecord
<1> QED BY <1>1, <1>2 DEF ToldInv, Untold, SameButReply

\* A call whose sender was held, and is used.
Told1(d) ==
  /\ SameButReply(d) /\ SenderHeld(d) /\ ~SenderHeld(d)' /\ d \notin checks'
  /\ call'[d].reply = "ok" =>
       /\ call[d].kind = "write" => call[d].want <= smApplied'
       /\ call[d].kind \in {"read", "lease"} => \A n \in call[d].acked : n <= call[d].want

LEMMA ToldKeeps ==
  ASSUME ApiInv, NEW d \in Calls, Told1(d), smApplied' \in Nat, smApplied <= smApplied'
  PROVE  ToldInv(d)'
<1>1. ToldInv(d) /\ call[d] \in CallRecord /\ smApplied \in Nat
  BY Zenon DEF ApiInv, ApiTypes
<1>2. call[d].want \in Nat /\ call[d].seen \in Nat /\ call[d].acked \subseteq Nat
  BY <1>1, Zenon DEF CallRecord
<1> QED BY <1>1, <1>2 DEF ToldInv, Told1, SameButReply

\* The senders that are held can only become fewer.
QueueShrinks == smq' = smq \/ smq' = <<>> \/ (smq # <<>> /\ smq' = Tail(smq))

Shrinks ==
  /\ NoneTwice(apiq') /\ CallsIn(apiq') \subseteq CallsIn(apiq) /\ checks' \subseteq checks
  /\ eng'.pending \subseteq eng.pending /\ eng'.log = eng.log
  /\ QueueShrinks
  /\ \A d \in Calls : call'[d].kind = call[d].kind /\ call'[d].want = call[d].want

LEMMA CommandsShrink ==
  ASSUME ApiInv, QueueShrinks
  PROVE  /\ smq' \in Seq(Commands)
         /\ \E k \in {0, 1} : \A i \in 1..Len(smq') : i + k \in 1..Len(smq) /\ smq'[i] = smq[i + k]
<1>1. smq \in Seq(Commands)
  BY Zenon DEF ApiInv, ApiTypes
<1>2. CASE smq' = smq
  BY <1>1, <1>2
<1>3. CASE smq' = <<>>
  BY <1>1, <1>3
<1>4. CASE smq' = Tail(smq) /\ smq # <<>>
  <2>1. /\ smq' \in Seq(Commands) /\ Len(smq') = Len(smq) - 1 /\ Len(smq) \in Nat
        /\ \A i \in 1..Len(smq') : smq'[i] = smq[i + 1]
    BY <1>1, <1>4
  <2> QED BY <2>1
<1> QED BY <1>2, <1>3, <1>4, Zenon DEF QueueShrinks

LEMMA HeldShrinks ==
  ASSUME ApiInv, Shrinks
  PROVE  HeldInv' /\ \A d \in Calls : SenderHeld(d)' => SenderHeld(d)
<1>1. smq \in Seq(Commands) /\ smq' \in Seq(Commands)
  BY CommandsShrink, Zenon DEF ApiInv, ApiTypes, Shrinks
<1>2. PICK k \in {0, 1} : \A i \in 1..Len(smq') : i + k \in 1..Len(smq) /\ smq'[i] = smq[i + k]
  BY CommandsShrink, Zenon DEF Shrinks
<1>3. \A p \in eng.pending : p.call \in Calls
  BY Zenon DEF ApiInv, ApiTypes, Engine
<1>4. \A i \in 1..Len(smq) : smq[i].calls \subseteq Calls
  <2>1. \A i \in 1..Len(smq) : smq[i] \in Commands
    BY <1>1
  <2> QED BY <2>1, Zenon DEF Commands
<1>5. \A p \in eng'.pending :
        /\ call'[p.call].kind = "write" /\ call'[p.call].want = p.at /\ p.at <= eng'.log
        /\ \A i \in 1..Len(smq') : p.call \notin smq'[i].calls
  BY <1>2, <1>3, Zenon DEF ApiInv, HeldInv, PendingInv, Shrinks
<1>6. ASSUME NEW i \in 1..Len(smq'), NEW c \in smq'[i].calls
      PROVE  /\ smq'[i].do = "apply" => call'[c].kind = "write" /\ call'[c].want <= smq'[i].upto
             /\ smq'[i].do # "apply" => call'[c].kind = smq'[i].do
             /\ \A j \in 1..Len(smq') : c \in smq'[j].calls => i = j
  <2>1. i + k \in 1..Len(smq) /\ smq'[i] = smq[i + k] /\ c \in smq[i + k].calls /\ c \in Calls
    BY <1>2, <1>4, Zenon
  <2>2. call'[c].kind = call[c].kind /\ call'[c].want = call[c].want
    BY <2>1, Zenon DEF Shrinks
  <2>3. ASSUME NEW j \in 1..Len(smq'), c \in smq'[j].calls PROVE i + k = j + k
    <3>1. j + k \in 1..Len(smq) /\ c \in smq[j + k].calls
      BY <1>2, <2>3, Zenon
    <3> QED BY <2>1, <3>1, Zenon DEF ApiInv, HeldInv, CommandedInv
  <2> QED BY <2>1, <2>2, <2>3 DEF ApiInv, HeldInv, CommandedInv
<1>7. \A c \in CallsIn(apiq') :
        /\ c \notin checks' /\ c \notin PendingCalls'
        /\ \A i \in 1..Len(smq') : c \notin smq'[i].calls
  BY <1>2 DEF ApiInv, HeldInv, QueuedInv, Shrinks, PendingCalls
<1>8. \A c \in checks' : call'[c].kind = "read"
  BY Zenon DEF ApiInv, ApiTypes, HeldInv, ChecksInv, Shrinks
<1>9. \A d \in Calls : SenderHeld(d)' => SenderHeld(d)
  BY <1>2, Zenon DEF SenderHeld, Shrinks
<1> QED BY <1>5, <1>6, <1>7, <1>8, <1>9, Zenon DEF HeldInv, QueuedInv, PendingInv, CommandedInv, ChecksInv, Shrinks

-----------------------------------------------------------------------------
(* RaftCore handles a message *)

\* The first message of the channel is taken.
Handled(c) ==
  /\ c \in CallsIn(apiq) /\ apiq' \in Seq(Calls) /\ NoneTwice(apiq')
  /\ CallsIn(apiq') \subseteq CallsIn(apiq) \ {c}
  /\ UNCHANGED <<noteq, smApplied, mets, coreState>> /\ coreErr' \in Errors \cup {"none"}

\* Who sent it holds nothing else and waits for the answer.
LEMMA HandledIsOpen ==
  ASSUME ApiInv, NEW c \in Calls, Handled(c)
  PROVE  /\ c \notin checks /\ c \notin PendingCalls /\ c \notin CallsIn(apiq')
         /\ \A i \in 1..Len(smq) : c \notin smq[i].calls
         /\ SenderHeld(c) /\ call[c].reply \in {"none", "open"}
         /\ call[c].pc \notin {"off", "flushed", "send"}
         /\ call[c].kind \in {"write", "read", "lease"} => call[c].res # "ok" /\ call[c].pc # "ready"
<1>1. SenderHeld(c) /\ ToldInv(c)
  BY Zenon DEF SenderHeld, Handled, ApiInv
<1>2. c \notin checks /\ c \notin PendingCalls /\ \A i \in 1..Len(smq) : c \notin smq[i].calls
  BY Zenon DEF ApiInv, HeldInv, QueuedInv, Handled
<1>3. c \notin CallsIn(apiq')
  BY Zenon DEF Handled
<1> QED BY <1>1, <1>2, <1>3, Zenon DEF ToldInv

\* One call changes, and perhaps the core.
Changes(c, new) == call' = [call EXCEPT ![c] = new] /\ new \in CallRecord

LEMMA Changed ==
  ASSUME ApiInv, NEW c \in Calls, NEW new, Changes(c, new)
  PROVE  call' \in [Calls -> CallRecord] /\ call'[c] = new /\ \A d \in Calls : d # c => call'[d] = call[d]
BY Zenon DEF ApiInv, ApiTypes, Changes

LEMMA AnswerKeeps ==
  ASSUME ApiInv, NEW c \in Calls, Handled(c), NEW res \in {"ok", "forward"}, Answer(c, res),
         UNCHANGED <<eng, checks, smq>>,
         res = "ok" => call[c].kind \notin {"write", "read", "lease"}
  PROVE  ApiInv'
<1> DEFINE new == [call[c] EXCEPT !.reply = res]
<1>1. /\ new \in CallRecord /\ new.kind = call[c].kind /\ new.pc = call[c].pc /\ new.res = call[c].res
      /\ new.reply = res /\ new.want = call[c].want /\ new.acked = call[c].acked
      /\ new.seen = call[c].seen
  BY Zenon DEF ApiInv, ApiTypes, CallRecord, Replies
<1>2. Changes(c, new)
  BY <1>1, Zenon DEF Answer, Set, Changes
<1> HIDE DEF new
<1>3. call' \in [Calls -> CallRecord] /\ call'[c] = new /\ \A d \in Calls : d # c => call'[d] = call[d]
  BY <1>2, Changed, Zenon
<1>4. Shrinks
  BY <1>1, <1>3, Zenon DEF Shrinks, QueueShrinks, Handled
<1>5. HeldInv' /\ \A d \in Calls : SenderHeld(d)' => SenderHeld(d)
  BY <1>4, HeldShrinks, Zenon
<1>6. ApiTypes'
  BY <1>3, Zenon DEF ApiInv, ApiTypes, Handled
<1>7. PositionsInv'
  BY Zenon DEF ApiInv, PositionsInv, NotesInv, CommandsInv, Handled
<1>8. smApplied' \in Nat /\ smApplied <= smApplied'
  BY DEF ApiInv, ApiTypes, Handled
<1>9. ~SenderHeld(c)' /\ c \notin checks'
  BY HandledIsOpen, Zenon DEF SenderHeld, PendingCalls
<1>10. Told1(c)
  BY <1>1, <1>3, <1>9, HandledIsOpen, Zenon DEF Told1, SameButReply
<1>11. ASSUME NEW d \in Calls, d # c PROVE Untold(d)
  BY <1>3, <1>5, <1>11, Zenon DEF Untold, SameButReply
<1>12. \A d \in Calls : ToldInv(d)'
  BY <1>8, <1>10, <1>11, ToldKeeps, UntoldKeeps, Zenon
<1> QED BY <1>5, <1>6, <1>7, <1>12, Zenon DEF ApiInv


\* The leadership check fixes the position of a read, and the answer is given
\* at once or left to a task.
LEMMA CheckedKeeps ==
  ASSUME ApiInv, NEW c \in Calls, Handled(c), UNCHANGED <<eng, smq>>,
         call[c].kind \in {"read", "lease"}, NEW new, Changes(c, new),
         new.kind = call[c].kind, new.pc = call[c].pc, new.res = call[c].res,
         new.acked = call[c].acked, new.want = eng.committed, new.seen = eng.applied,
         \/ new.reply = "ok" /\ checks' = checks
         \/ new.reply = call[c].reply /\ call[c].kind = "read" /\ checks' = checks \cup {c}
  PROVE  ApiInv'
<1>1. call' \in [Calls -> CallRecord] /\ call'[c] = new /\ \A d \in Calls : d # c => call'[d] = call[d]
  BY Changed, Zenon
<1>2. /\ c \notin checks /\ c \notin PendingCalls /\ c \notin CallsIn(apiq')
      /\ \A i \in 1..Len(smq) : c \notin smq[i].calls
      /\ call[c].reply \in {"none", "open"} /\ call[c].pc \notin {"off", "flushed", "send"}
      /\ call[c].res # "ok" /\ call[c].pc # "ready"
  BY HandledIsOpen, Zenon
<1>3. ApiTypes'
  BY <1>1, Zenon DEF ApiInv, ApiTypes, Handled
<1>4. PositionsInv'
  BY Zenon DEF ApiInv, PositionsInv, NotesInv, CommandsInv, Handled
<1>5. \A p \in eng.pending : p.call \in Calls /\ call'[p.call] = call[p.call]
  BY <1>1, <1>2 DEF ApiInv, ApiTypes, Engine, PendingCalls
<1>6. \A i \in 1..Len(smq) : \A d \in smq[i].calls : call'[d] = call[d]
  <2>1. \A i \in 1..Len(smq) : smq[i] \in Commands
    BY DEF ApiInv, ApiTypes
  <2>2. \A i \in 1..Len(smq) : smq[i].calls \subseteq Calls
    BY <2>1, Zenon DEF Commands
  <2> QED BY <1>1, <1>2, <2>2, Zenon
<1>7. \A d \in checks' : call'[d].kind = "read"
  BY <1>1, <1>2 DEF ApiInv, ApiTypes, HeldInv, ChecksInv
<1>8. \A d \in CallsIn(apiq') :
        /\ d \notin checks' /\ d \notin PendingCalls'
        /\ \A i \in 1..Len(smq) : d \notin smq[i].calls
  BY <1>2, Zenon DEF ApiInv, HeldInv, QueuedInv, Handled, PendingCalls
<1>9. HeldInv'
  <2>1. QueuedInv'
    BY <1>8, Zenon DEF QueuedInv, Handled
  <2>2. PendingInv'
    BY <1>5, Zenon DEF ApiInv, HeldInv, PendingInv
  <2>3. CommandedInv'
    BY <1>6 DEF ApiInv, HeldInv, CommandedInv
  <2>4. ChecksInv'
    BY <1>7, Zenon DEF ChecksInv
  <2> QED BY <2>1, <2>2, <2>3, <2>4, Zenon DEF HeldInv
<1>10. ASSUME NEW d \in Calls, d # c PROVE ToldInv(d)'
  <2>1. Untold(d)
    BY <1>1, <1>10, Zenon DEF Untold, SameButReply, SenderHeld, Handled
  <2>2. smApplied' \in Nat /\ smApplied <= smApplied'
    BY DEF ApiInv, ApiTypes, Handled
  <2> QED BY <2>1, <2>2, UntoldKeeps, Zenon
<1>11. ToldInv(c)'
  <2>1. ToldInv(c) /\ smApplied' = smApplied
    BY Zenon DEF ApiInv, Handled
  <2>2. eng.applied <= smApplied /\ \A n \in call[c].acked : n <= eng.committed
    <3>1. /\ eng.applied \in Nat /\ eng.committed \in Nat /\ smApplied \in Nat
          /\ call[c].acked \subseteq Nat /\ smApplied <= eng.committed /\ eng.applied <= smApplied
      BY Zenon DEF ApiInv, ApiTypes, Engine, CallRecord, PositionsInv
    <3> QED BY <2>1, <3>1 DEF ToldInv
  <2>3. SenderHeld(c)' => new.reply = call[c].reply
    BY <1>2, Zenon DEF SenderHeld, PendingCalls
  <2> QED BY <1>1, <1>2, <2>1, <2>2, <2>3, Zenon DEF ToldInv
<1> QED BY <1>3, <1>4, <1>9, <1>10, <1>11, Zenon DEF ApiInv

LEMMA LeaderCheckKeeps ==
  ASSUME ApiInv, NEW c \in Calls, Handled(c), handle_check_is_leader_request(c)
  PROVE  ApiInv'
<1> DEFINE at == [call[c] EXCEPT !.want = eng.committed, !.seen = eng.applied]
           ok == [at EXCEPT !.reply = "ok"]
<1>1. UNCHANGED <<eng, smq>> /\ call[c].kind \in {"read", "lease"}
  BY Zenon DEF handle_check_is_leader_request
<1>2. CASE UNCHANGED checks /\ Answer(c, "forward")
  BY <1>1, <1>2, AnswerKeeps, Zenon
<1>3. CASE UNCHANGED checks /\ Set(c, ok)
  <2>0. eng.committed \in Nat /\ eng.applied \in Nat /\ call[c] \in CallRecord
    BY Zenon DEF ApiInv, ApiTypes, Engine
  <2>1. /\ ok \in CallRecord /\ ok.kind = call[c].kind /\ ok.pc = call[c].pc /\ ok.res = call[c].res
        /\ ok.acked = call[c].acked /\ ok.want = eng.committed /\ ok.seen = eng.applied
        /\ ok.reply = "ok"
    BY <2>0, Zenon DEF CallRecord, Replies
  <2> HIDE DEF ok
  <2>2. Changes(c, ok)
    BY <1>3, <2>1, Zenon DEF Changes, Set
  <2> QED BY <1>1, <1>3, <2>1, <2>2, CheckedKeeps, Zenon
<1>4. CASE checks' = checks \cup {c} /\ Set(c, at) /\ call[c].kind = "read"
  <2>0. eng.committed \in Nat /\ eng.applied \in Nat /\ call[c] \in CallRecord
    BY Zenon DEF ApiInv, ApiTypes, Engine
  <2>1. /\ at \in CallRecord /\ at.kind = call[c].kind /\ at.pc = call[c].pc /\ at.res = call[c].res
        /\ at.acked = call[c].acked /\ at.want = eng.committed /\ at.seen = eng.applied
        /\ at.reply = call[c].reply
    BY <2>0, Zenon DEF CallRecord, Replies
  <2> HIDE DEF at
  <2>2. Changes(c, at)
    BY <1>4, <2>1, Zenon DEF Changes, Set
  <2> QED BY <1>1, <1>4, <2>1, <2>2, CheckedKeeps, Zenon
<1> QED BY <1>2, <1>3, <1>4, Zenon DEF handle_check_is_leader_request

\* A write of the leader waits in the core for its entry.
LEMMA WriteKeeps ==
  ASSUME ApiInv, NEW c \in Calls, Handled(c), write_entry(c)
  PROVE  ApiInv'
<1> DEFINE n == eng.log + 1
           new == [call[c] EXCEPT !.want = n]
           e == [eng EXCEPT !.log = @ + 1, !.pending = @ \cup {[call |-> c, at |-> eng.log + 1]}]
<1>1. CASE ~eng.lead
  BY <1>1, AnswerKeeps, Zenon DEF write_entry
<1>2. CASE eng.lead
  <2>0. eng.log \in Nat /\ n \in Nat /\ call[c] \in CallRecord /\ eng \in Engine
    BY DEF ApiInv, ApiTypes, Engine
  <2>1. /\ new \in CallRecord /\ new.kind = call[c].kind /\ new.pc = call[c].pc /\ new.res = call[c].res
        /\ new.reply = call[c].reply /\ new.want = n /\ new.acked = call[c].acked
        /\ new.seen = call[c].seen
    BY <2>0, Zenon DEF CallRecord
  <2>2. /\ e \in Engine /\ e.log = n /\ e.committed = eng.committed /\ e.applied = eng.applied
        /\ e.pending = eng.pending \cup {[call |-> c, at |-> n]}
    <3>1. [call |-> c, at |-> n] \in [call : Calls, at : Nat]
      BY <2>0, Zenon
    <3> QED BY <2>0, <3>1, Zenon DEF Engine
  <2>3. eng' = e /\ Changes(c, new) /\ UNCHANGED <<checks, smq>> /\ call[c].kind = "write"
    BY <1>2, <2>1, Zenon DEF write_entry, Changes, Set
  <2> HIDE DEF e, new
  <2>4. call' \in [Calls -> CallRecord] /\ call'[c] = new /\ \A d \in Calls : d # c => call'[d] = call[d]
    BY <2>3, Changed, Zenon
  <2>5. /\ c \notin checks /\ c \notin PendingCalls /\ c \notin CallsIn(apiq')
        /\ \A i \in 1..Len(smq) : c \notin smq[i].calls
        /\ SenderHeld(c) /\ call[c].reply \in {"none", "open"}
        /\ call[c].pc \notin {"off", "flushed", "send"}
        /\ call[c].res # "ok" /\ call[c].pc # "ready"
    BY <2>3, HandledIsOpen, Zenon
  <2>6. ApiTypes'
    BY <2>2, <2>3, <2>4, Zenon DEF ApiInv, ApiTypes, Handled
  <2>7. PositionsInv'
    <3>1. NotesInv' /\ CommandsInv'
      BY <2>2, <2>3, Zenon DEF ApiInv, PositionsInv, NotesInv, CommandsInv, Handled
    <3>2. eng.committed \in Nat /\ eng.committed <= eng.log
      BY <2>0, Zenon DEF ApiInv, PositionsInv, Engine
    <3> QED BY <2>0, <2>2, <2>3, <3>1, <3>2 DEF ApiInv, PositionsInv, Handled
  <2>8. \A p \in eng'.pending :
          /\ call'[p.call].kind = "write" /\ call'[p.call].want = p.at /\ p.at <= eng'.log
          /\ \A i \in 1..Len(smq) : p.call \notin smq[i].calls
    <3>1. ASSUME NEW p \in eng.pending
          PROVE  /\ call'[p.call].kind = "write" /\ call'[p.call].want = p.at /\ p.at <= eng'.log
                 /\ \A i \in 1..Len(smq) : p.call \notin smq[i].calls
      <4>1. p.call \in Calls /\ p.at \in Nat /\ p.call # c
        BY <2>0, <2>5, Zenon DEF Engine, PendingCalls
      <4> QED BY <2>0, <2>2, <2>3, <2>4, <4>1 DEF ApiInv, HeldInv, PendingInv
    <3> QED BY <2>0, <2>1, <2>2, <2>3, <2>4, <2>5, <3>1
  <2>9. \A i \in 1..Len(smq) : \A d \in smq[i].calls : call'[d] = call[d]
    <3>1. \A i \in 1..Len(smq) : smq[i] \in Commands
      BY DEF ApiInv, ApiTypes
    <3>2. \A i \in 1..Len(smq) : smq[i].calls \subseteq Calls
      BY <3>1, Zenon DEF Commands
    <3> QED BY <2>4, <2>5, <3>2, Zenon
  <2>10. \A d \in checks : call'[d].kind = "read"
    BY <2>4, <2>5, Zenon DEF ApiInv, ApiTypes, HeldInv, ChecksInv
  <2>11. \A d \in CallsIn(apiq') :
          /\ d \notin checks /\ d \notin PendingCalls'
          /\ \A i \in 1..Len(smq) : d \notin smq[i].calls
    BY <2>2, <2>3, <2>5 DEF ApiInv, HeldInv, QueuedInv, Handled, PendingCalls
  <2>12. HeldInv'
    <3>1. QueuedInv'
      BY <2>3, <2>11, Zenon DEF QueuedInv, Handled
    <3>2. PendingInv'
      BY <2>3, <2>8, Zenon DEF PendingInv
    <3>3. CommandedInv'
      BY <2>3, <2>9 DEF ApiInv, HeldInv, CommandedInv
    <3>4. ChecksInv'
      BY <2>3, <2>10, Zenon DEF ChecksInv
    <3> QED BY <3>1, <3>2, <3>3, <3>4, Zenon DEF HeldInv
  <2>13. \A d \in Calls : SenderHeld(d)' => SenderHeld(d)
    BY <2>2, <2>3, <2>5 DEF SenderHeld, Handled
  <2>14. ASSUME NEW d \in Calls, d # c PROVE ToldInv(d)'
    <3>1. Untold(d)
      BY <2>3, <2>4, <2>13, <2>14, Zenon DEF Untold, SameButReply
    <3>2. smApplied' \in Nat /\ smApplied <= smApplied'
      BY DEF ApiInv, ApiTypes, Handled
    <3> QED BY <3>1, <3>2, UntoldKeeps, Zenon
  <2>15. ToldInv(c)'
    <3>1. ToldInv(c) /\ smApplied' = smApplied
      BY Zenon DEF ApiInv, Handled
    <3> QED BY <2>1, <2>3, <2>4, <2>5, <3>1, Zenon DEF ToldInv
  <2> QED BY <2>6, <2>7, <2>12, <2>14, <2>15, Zenon DEF ApiInv
<1> QED BY <1>1, <1>2, Zenon


\* Nobody is answered and nothing is added.
LEMMA ShrinkKeeps ==
  ASSUME ApiInv, Shrinks, SameReplies, ApiTypes', PositionsInv', smApplied <= smApplied'
  PROVE  ApiInv'
<1>1. HeldInv' /\ \A d \in Calls : SenderHeld(d)' => SenderHeld(d)
  BY HeldShrinks, Zenon
<1>2. ASSUME NEW d \in Calls PROVE ToldInv(d)'
  <2>1. Untold(d)
    BY <1>1, Zenon DEF Untold, SameReplies, Shrinks
  <2>2. smApplied' \in Nat
    BY Zenon DEF ApiTypes
  <2> QED BY <2>1, <2>2, UntoldKeeps, Zenon
<1> QED BY <1>1, <1>2, Zenon DEF ApiInv

LEMMA NoAnswerKeeps ==
  ASSUME ApiInv, NEW c \in Calls, Handled(c), UNCHANGED <<call, eng, checks, smq>>
  PROVE  ApiInv'
<1>1. Shrinks /\ SameReplies
  BY Zenon DEF Shrinks, QueueShrinks, SameReplies, SameButReply, Handled
<1>2. ApiTypes'
  BY Zenon DEF ApiInv, ApiTypes, Handled
<1>3. PositionsInv'
  BY Zenon DEF ApiInv, PositionsInv, NotesInv, CommandsInv, Handled
<1>4. smApplied <= smApplied'
  BY DEF ApiInv, ApiTypes, Handled
<1> QED BY <1>1, <1>2, <1>3, <1>4, ShrinkKeeps, Zenon

LEMMA CommandAdded ==
  ASSUME ApiInv, NEW cmd \in Commands, smq' = Append(smq, cmd)
  PROVE  /\ smq' \in Seq(Commands) /\ Len(smq') = Len(smq) + 1 /\ Len(smq) \in Nat
         /\ \A i \in 1..Len(smq) : smq'[i] = smq[i] /\ smq[i] \in Commands /\ smq[i].calls \subseteq Calls
         /\ smq'[Len(smq) + 1] = cmd
<1>1. smq \in Seq(Commands)
  BY Zenon DEF ApiInv, ApiTypes
<1>2. \A i \in 1..Len(smq) : smq[i] \in Commands
  BY <1>1
<1>3. \A i \in 1..Len(smq) : smq[i].calls \subseteq Calls
  BY <1>2, Zenon DEF Commands
<1> QED BY <1>1, <1>2, <1>3

LEMMA PassKeeps ==
  ASSUME ApiInv, NEW c \in Calls, Handled(c), PassToWorker(c)
  PROVE  ApiInv'
<1> DEFINE cmd == [do |-> call[c].kind, upto |-> 0, calls |-> {c}]
<1>1. CASE smState = "down"
  BY <1>1, NoAnswerKeeps, Zenon DEF PassToWorker, SmSend
<1>2. CASE smState # "down"
  <2>1. /\ cmd \in Commands /\ cmd.do = call[c].kind /\ cmd.do # "apply" /\ cmd.calls = {c}
        /\ smq' = Append(smq, cmd) /\ UNCHANGED <<call, eng, checks>>
    BY <1>2, Zenon DEF PassToWorker, SmSend, Commands
  <2> HIDE DEF cmd
  <2>2. /\ smq' \in Seq(Commands) /\ Len(smq') = Len(smq) + 1 /\ Len(smq) \in Nat
        /\ \A i \in 1..Len(smq) : smq'[i] = smq[i] /\ smq[i] \in Commands /\ smq[i].calls \subseteq Calls
        /\ smq'[Len(smq) + 1] = cmd
    BY <2>1, CommandAdded, Zenon
  <2>3. /\ c \notin checks /\ c \notin PendingCalls /\ c \notin CallsIn(apiq')
        /\ \A i \in 1..Len(smq) : c \notin smq[i].calls
        /\ SenderHeld(c)
    BY HandledIsOpen, Zenon
  <2>4. ApiTypes'
    BY <2>1, <2>2, Zenon DEF ApiInv, ApiTypes, Handled
  <2>5. CommandsInv'
    BY <2>1, <2>2 DEF ApiInv, PositionsInv, CommandsInv, Handled
  <2>6. PositionsInv'
    BY <2>1, <2>5, Zenon DEF ApiInv, PositionsInv, NotesInv, Handled
  <2>7. \A i \in 1..Len(smq') : i \in 1..Len(smq) \/ i = Len(smq) + 1
    BY <2>2
  <2>8. ASSUME NEW i \in 1..Len(smq'), NEW d \in smq'[i].calls
        PROVE  /\ smq'[i].do = "apply" => call[d].kind = "write" /\ call[d].want <= smq'[i].upto
               /\ smq'[i].do # "apply" => call[d].kind = smq'[i].do
               /\ \A j \in 1..Len(smq') : d \in smq'[j].calls => i = j
    <3>1. CASE i \in 1..Len(smq)
      BY <2>1, <2>2, <2>3, <2>7, <3>1 DEF ApiInv, HeldInv, CommandedInv
    <3>2. CASE i = Len(smq) + 1
      BY <2>1, <2>2, <2>3, <2>7, <3>2
    <3> QED BY <2>7, <3>1, <3>2, Zenon
  <2>9. \A d \in CallsIn(apiq') :
          /\ d \notin checks /\ d \notin PendingCalls
          /\ \A i \in 1..Len(smq') : d \notin smq'[i].calls
    BY <2>1, <2>2, <2>3, <2>7, Zenon DEF ApiInv, HeldInv, QueuedInv, Handled
  <2>10. \A p \in eng.pending : \A i \in 1..Len(smq') : p.call \notin smq'[i].calls
    BY <2>1, <2>2, <2>3, <2>7 DEF ApiInv, HeldInv, PendingInv, PendingCalls
  <2>11. HeldInv'
    <3>1. QueuedInv'
      BY <2>1, <2>9, Zenon DEF QueuedInv, Handled, PendingCalls
    <3>2. PendingInv'
      BY <2>1, <2>10, Zenon DEF ApiInv, HeldInv, PendingInv
    <3>3. CommandedInv'
      BY <2>1, <2>8 DEF CommandedInv
    <3>4. ChecksInv'
      BY <2>1, Zenon DEF ApiInv, HeldInv, ChecksInv
    <3> QED BY <3>1, <3>2, <3>3, <3>4, Zenon DEF HeldInv
  <2>12. ASSUME NEW d \in Calls PROVE SenderHeld(d)' => SenderHeld(d)
    BY <2>1, <2>2, <2>3, <2>7 DEF SenderHeld, Handled
  <2>13. ASSUME NEW d \in Calls PROVE ToldInv(d)'
    <3>1. Untold(d)
      BY <2>1, <2>12, Zenon DEF Untold, SameButReply
    <3>2. smApplied' \in Nat /\ smApplied <= smApplied'
      BY DEF ApiInv, ApiTypes, Handled
    <3> QED BY <3>1, <3>2, UntoldKeeps, Zenon
  <2> QED BY <2>4, <2>6, <2>11, <2>13, Zenon DEF ApiInv
<1> QED BY <1>1, <1>2, Zenon


\* The whole log is committed, and who waits in the core goes to the worker.
Commits ==
  /\ NoneTwice(apiq') /\ CallsIn(apiq') \subseteq CallsIn(apiq) /\ UNCHANGED <<checks, smApplied>>
  /\ eng' \in Engine /\ eng'.log = eng.log /\ eng'.committed = eng.log /\ eng'.applied = eng.applied
  /\ eng'.pending = {}
  /\ SmSend([do |-> "apply", upto |-> eng.log, calls |-> PendingCalls])
  /\ \A d \in Calls : call'[d].kind = call[d].kind /\ call'[d].want = call[d].want

LEMMA PendingHeldOnce ==
  ASSUME ApiInv
  PROVE  /\ PendingCalls \subseteq Calls
         /\ \A d \in PendingCalls :
              /\ SenderHeld(d) /\ d \notin CallsIn(apiq) /\ d \notin checks
              /\ \A i \in 1..Len(smq) : d \notin smq[i].calls
              /\ call[d].kind = "write" /\ call[d].want <= eng.log
<1>1. \A p \in eng.pending : p.call \in Calls
  BY Zenon DEF ApiInv, ApiTypes, Engine
<1>2. ASSUME NEW d \in PendingCalls
      PROVE  /\ SenderHeld(d) /\ d \notin CallsIn(apiq) /\ d \notin checks
             /\ \A i \in 1..Len(smq) : d \notin smq[i].calls
             /\ call[d].kind = "write" /\ call[d].want <= eng.log
  <2>1. PICK p \in eng.pending : p.call = d
    BY Zenon DEF PendingCalls
  <2> QED BY <2>1, Zenon DEF ApiInv, HeldInv, QueuedInv, PendingInv, ChecksInv, SenderHeld
<1> QED BY <1>1, <1>2, Zenon DEF PendingCalls

LEMMA CommitsKeeps ==
  ASSUME ApiInv, Commits
  PROVE  /\ smq' \in Seq(Commands) /\ CommandsInv' /\ HeldInv'
         /\ \A d \in Calls : SenderHeld(d)' => SenderHeld(d)
<1> DEFINE cmd == [do |-> "apply", upto |-> eng.log, calls |-> PendingCalls]
<1>0. /\ smq \in Seq(Commands) /\ eng.log \in Nat /\ eng.committed \in Nat /\ smApplied \in Nat
      /\ eng.committed <= eng.log /\ smApplied <= eng.committed
  BY Zenon DEF ApiInv, ApiTypes, Engine, PositionsInv
<1>1. CASE smState = "down"
  <2>1. smq' = smq
    BY <1>1, Zenon DEF Commits, SmSend
  <2>2. Shrinks
    BY <2>1, Zenon DEF Shrinks, QueueShrinks, Commits
  <2>3. \A i \in 1..Len(smq) : smq[i].upto \in Nat
    <3>1. \A i \in 1..Len(smq) : smq[i] \in Commands
      BY <1>0
    <3> QED BY <3>1, Zenon DEF Commands
  <2>4. CommandsInv'
    BY <1>0, <2>1, <2>3 DEF ApiInv, PositionsInv, CommandsInv, Commits
  <2> QED BY <1>0, <2>1, <2>2, <2>4, HeldShrinks, Zenon
<1>2. CASE smState # "down"
  <2>1. /\ cmd \in Commands /\ cmd.do = "apply" /\ cmd.calls = PendingCalls /\ cmd.upto = eng.log
        /\ smq' = Append(smq, cmd)
    BY <1>0, <1>2, PendingHeldOnce, Zenon DEF Commits, SmSend, Commands
  <2> HIDE DEF cmd
  <2>2. /\ smq' \in Seq(Commands) /\ Len(smq') = Len(smq) + 1 /\ Len(smq) \in Nat
        /\ \A i \in 1..Len(smq) : smq'[i] = smq[i] /\ smq[i] \in Commands /\ smq[i].calls \subseteq Calls
        /\ smq'[Len(smq) + 1] = cmd
    BY <2>1, CommandAdded, Zenon
  <2>3. \A i \in 1..Len(smq') : i \in 1..Len(smq) \/ i = Len(smq) + 1
    BY <2>2
  <2>4. \A i \in 1..Len(smq) : smq[i].upto \in Nat
    BY <2>2, Zenon DEF Commands
  <2>5. CommandsInv'
    <3>1. ASSUME NEW i \in 1..Len(smq'), smq'[i].do = "apply"
          PROVE  /\ smApplied' <= smq'[i].upto /\ smq'[i].upto <= eng'.committed
                 /\ smq'[i].upto <= eng.log
      BY <1>0, <2>1, <2>2, <2>3, <2>4, <3>1 DEF ApiInv, PositionsInv, CommandsInv, Commits
    <3>2. ASSUME NEW i \in 1..Len(smq'), NEW j \in 1..Len(smq'), smq'[i].do = "apply",
                 smq'[j].do = "apply", i < j
          PROVE  smq'[i].upto <= smq'[j].upto
      <4>1. i \in 1..Len(smq)
        BY <2>2, <3>2
      <4>2. CASE j \in 1..Len(smq)
        BY <2>2, <3>2, <4>1, <4>2, Zenon DEF ApiInv, PositionsInv, CommandsInv
      <4>3. CASE j = Len(smq) + 1
        BY <2>1, <2>2, <3>1, <3>2, <4>3, Zenon
      <4> QED BY <2>3, <4>2, <4>3, Zenon
    <3> QED BY <3>1, <3>2, Zenon DEF CommandsInv
  <2>6. ASSUME NEW i \in 1..Len(smq'), NEW d \in smq'[i].calls
        PROVE  /\ d \in Calls
               /\ smq'[i].do = "apply" => call[d].kind = "write" /\ call[d].want <= smq'[i].upto
               /\ smq'[i].do # "apply" => call[d].kind = smq'[i].do
               /\ \A j \in 1..Len(smq') : d \in smq'[j].calls => i = j
    <3>1. CASE i \in 1..Len(smq)
      <4>1. smq'[i] = smq[i] /\ d \in smq[i].calls /\ d \in Calls
        BY <2>2, <3>1, Zenon
      <4>2. d \notin PendingCalls
        BY <3>1, <4>1, PendingHeldOnce, Zenon
      <4>3. \A j \in 1..Len(smq') : d \in smq'[j].calls => j \in 1..Len(smq) /\ d \in smq[j].calls
        BY <2>1, <2>2, <2>3, <4>2, Zenon
      <4> QED BY <3>1, <4>1, <4>3, Zenon DEF ApiInv, HeldInv, CommandedInv
    <3>2. CASE i = Len(smq) + 1
      <4>1. d \in PendingCalls /\ smq'[i] = cmd
        BY <2>1, <2>2, <3>2, Zenon
      <4>2. d \in Calls /\ call[d].kind = "write" /\ call[d].want <= eng.log
        BY <4>1, PendingHeldOnce, Zenon
      <4>3. \A j \in 1..Len(smq) : d \notin smq'[j].calls
        BY <2>2, <4>1, PendingHeldOnce, Zenon
      <4> QED BY <2>1, <2>3, <3>2, <4>1, <4>2, <4>3, Zenon
    <3> QED BY <2>3, <3>1, <3>2, Zenon
  <2>7. \A d \in CallsIn(apiq') :
          /\ d \notin checks' /\ d \notin PendingCalls'
          /\ \A i \in 1..Len(smq') : d \notin smq'[i].calls
    BY <2>1, <2>2, <2>3, Zenon DEF ApiInv, HeldInv, QueuedInv, Commits, PendingCalls
  <2>8. \A d \in checks' : call'[d].kind = "read"
    BY Zenon DEF ApiInv, ApiTypes, HeldInv, ChecksInv, Commits
  <2>9. HeldInv'
    BY <2>6, <2>7, <2>8 DEF HeldInv, QueuedInv, PendingInv, CommandedInv, ChecksInv, Commits
  <2>10. ASSUME NEW d \in Calls, SenderHeld(d)' PROVE SenderHeld(d)
    <3>1. \/ d \in CallsIn(apiq) \/ d \in checks
          \/ \E i \in 1..Len(smq') : d \in smq'[i].calls
      BY <2>10, Zenon DEF SenderHeld, Commits
    <3>2. ASSUME NEW i \in 1..Len(smq'), d \in smq'[i].calls PROVE SenderHeld(d)
      BY <2>1, <2>2, <2>3, <3>2, PendingHeldOnce DEF SenderHeld
    <3> QED BY <3>1, <3>2, Zenon DEF SenderHeld
  <2> QED BY <2>2, <2>5, <2>9, <2>10, Zenon
<1> QED BY <1>1, <1>2, Zenon


LEMMA CommitAllIs ==
  ASSUME ApiInv, NEW lead \in BOOLEAN,
         CommitAll([eng EXCEPT !.lead = lead]) \/ CommitAll(eng)
  PROVE  /\ eng' \in Engine /\ eng'.log = eng.log /\ eng'.committed = eng.log
         /\ eng'.applied = eng.applied /\ eng'.pending = {}
         /\ SmSend([do |-> "apply", upto |-> eng.log, calls |-> PendingCalls])
<1> DEFINE e == [eng EXCEPT !.lead = lead]
           f == [e EXCEPT !.committed = e.log, !.pending = {}]
           g == [eng EXCEPT !.committed = eng.log, !.pending = {}]
<1>0. eng \in Engine /\ eng.log \in Nat
  BY Zenon DEF ApiInv, ApiTypes, Engine
<1>1. e \in Engine /\ e.log = eng.log /\ e.applied = eng.applied
  BY <1>0, Zenon DEF Engine
<1>2. /\ f \in Engine /\ f.log = eng.log /\ f.committed = eng.log /\ f.applied = eng.applied
      /\ f.pending = {}
  <2> HIDE DEF e
  <2>1. {} \in SUBSET [call : Calls, at : Nat]
    BY Zenon
  <2> QED BY <1>0, <1>1, <2>1, Zenon DEF Engine
<1>3. /\ g \in Engine /\ g.log = eng.log /\ g.committed = eng.log /\ g.applied = eng.applied
      /\ g.pending = {}
  <2>1. {} \in SUBSET [call : Calls, at : Nat]
    BY Zenon
  <2> QED BY <1>0, <2>1, Zenon DEF Engine
<1>4. CASE CommitAll([eng EXCEPT !.lead = lead])
  <2>1. eng' = f /\ SmSend([do |-> "apply", upto |-> e.log, calls |-> PendingCalls])
    BY <1>4, Zenon DEF CommitAll
  <2> HIDE DEF e, f
  <2> QED BY <1>1, <1>2, <2>1, Zenon
<1>5. CASE CommitAll(eng)
  <2>1. eng' = g /\ SmSend([do |-> "apply", upto |-> eng.log, calls |-> PendingCalls])
    BY <1>5, Zenon DEF CommitAll
  <2> HIDE DEF g
  <2> QED BY <1>3, <2>1, Zenon
<1> QED BY <1>4, <1>5, Zenon

\* A follower's log is committed, and the message answered.
LEMMA AppendCommitsKeeps ==
  ASSUME ApiInv, NEW c \in Calls, Handled(c), call[c].kind = "append", UNCHANGED checks,
         CommitAll([eng EXCEPT !.lead = FALSE]), Answer(c, "ok")
  PROVE  ApiInv'
<1> DEFINE new == [call[c] EXCEPT !.reply = "ok"]
<1>1. /\ new \in CallRecord /\ new.kind = call[c].kind /\ new.pc = call[c].pc /\ new.res = call[c].res
      /\ new.reply = "ok" /\ new.want = call[c].want /\ new.acked = call[c].acked
      /\ new.seen = call[c].seen
  BY Zenon DEF ApiInv, ApiTypes, CallRecord, Replies
<1>2. Changes(c, new)
  BY <1>1, Zenon DEF Answer, Set, Changes
<1> HIDE DEF new
<1>3. call' \in [Calls -> CallRecord] /\ call'[c] = new /\ \A d \in Calls : d # c => call'[d] = call[d]
  BY <1>2, Changed, Zenon
<1>4. /\ eng' \in Engine /\ eng'.log = eng.log /\ eng'.committed = eng.log
      /\ eng'.applied = eng.applied /\ eng'.pending = {}
      /\ SmSend([do |-> "apply", upto |-> eng.log, calls |-> PendingCalls])
  BY CommitAllIs, Zenon
<1>5. Commits
  BY <1>1, <1>3, <1>4, Zenon DEF Commits, Handled
<1>6. /\ smq' \in Seq(Commands) /\ CommandsInv' /\ HeldInv'
      /\ \A d \in Calls : SenderHeld(d)' => SenderHeld(d)
  BY <1>5, CommitsKeeps, Zenon
<1>7. ApiTypes'
  BY <1>3, <1>4, <1>6, Zenon DEF ApiInv, ApiTypes, Handled
<1>8. PositionsInv'
  <2>1. /\ eng.committed \in Nat /\ eng.log \in Nat /\ smApplied \in Nat
        /\ smApplied <= eng.committed /\ eng.committed <= eng.log
    BY Zenon DEF ApiInv, ApiTypes, Engine, PositionsInv
  <2> QED BY <1>4, <1>6, <2>1 DEF ApiInv, PositionsInv, NotesInv, Handled
<1>9. smApplied' \in Nat /\ smApplied <= smApplied'
  BY DEF ApiInv, ApiTypes, Handled
<1>10. ~SenderHeld(c)' /\ c \notin checks' /\ SenderHeld(c)
  <2>1. /\ c \notin checks /\ c \notin PendingCalls /\ c \notin CallsIn(apiq')
        /\ \A i \in 1..Len(smq) : c \notin smq[i].calls /\ SenderHeld(c)
    BY HandledIsOpen, Zenon
  <2>2. SenderHeld(c)
    BY HandledIsOpen, Zenon
  <2>3. \A i \in 1..Len(smq') : c \notin smq'[i].calls
    <3>1. CASE smState = "down"
      BY <2>1, <3>1, <1>4, Zenon DEF SmSend
    <3>2. CASE smState # "down"
      <4> DEFINE cmd == [do |-> "apply", upto |-> eng.log, calls |-> PendingCalls]
      <4>1. cmd \in Commands /\ cmd.calls = PendingCalls /\ smq' = Append(smq, cmd)
        BY <1>4, <3>2, PendingHeldOnce, Zenon DEF SmSend, Commands, Engine
      <4> HIDE DEF cmd
      <4>2. /\ Len(smq') = Len(smq) + 1 /\ Len(smq) \in Nat
            /\ \A i \in 1..Len(smq) : smq'[i] = smq[i]
            /\ smq'[Len(smq) + 1] = cmd
        BY <4>1, CommandAdded, Zenon
      <4> QED BY <2>1, <4>1, <4>2
    <3> QED BY <3>1, <3>2, Zenon
  <2> QED BY <1>4, <2>1, <2>2, <2>3, Zenon DEF SenderHeld
<1>11. Told1(c)
  BY <1>1, <1>3, <1>10, Zenon DEF Told1, SameButReply
<1>12. ASSUME NEW d \in Calls, d # c PROVE Untold(d)
  BY <1>3, <1>6, <1>12, Zenon DEF Untold, SameButReply
<1>13. \A d \in Calls : ToldInv(d)'
  BY <1>9, <1>11, <1>12, ToldKeeps, UntoldKeeps, Zenon
<1> QED BY <1>6, <1>7, <1>8, <1>13, Zenon DEF ApiInv

\* A follower's log is replaced, and who waited there is sent away.
LEMMA AppendReplacesKeeps ==
  ASSUME ApiInv, NEW c \in Calls, Handled(c), call[c].kind = "append", UNCHANGED <<checks, smq>>,
         eng' = [[eng EXCEPT !.lead = FALSE] EXCEPT !.pending = {}],
         call' = [d \in Calls |->
                    IF d = c THEN [call[d] EXCEPT !.reply = "ok"]
                    ELSE IF d \in PendingCalls THEN [call[d] EXCEPT !.reply = "forward"]
                    ELSE call[d]]
  PROVE  ApiInv'
<1>1. \A d \in Calls : \A r \in Replies :
        LET new == [call[d] EXCEPT !.reply = r]
        IN  /\ new \in CallRecord /\ new.kind = call[d].kind /\ new.pc = call[d].pc
            /\ new.res = call[d].res /\ new.reply = r /\ new.want = call[d].want
            /\ new.acked = call[d].acked /\ new.seen = call[d].seen
  BY Zenon DEF ApiInv, ApiTypes, CallRecord
<1>2. call' \in [Calls -> CallRecord] /\ \A d \in Calls : SameButReply(d)
  BY <1>1, Zenon DEF ApiInv, ApiTypes, SameButReply, Replies
<1>3. /\ call'[c].reply = "ok"
      /\ \A d \in Calls : d # c /\ d \in PendingCalls => call'[d].reply = "forward"
      /\ \A d \in Calls : d # c /\ d \notin PendingCalls => call'[d].reply = call[d].reply
  BY <1>1, Zenon DEF Replies
<1>4. /\ eng' \in Engine /\ eng'.log = eng.log /\ eng'.committed = eng.committed
      /\ eng'.applied = eng.applied /\ eng'.pending = {}
  <2>1. eng \in Engine /\ {} \in SUBSET [call : Calls, at : Nat]
    BY Zenon DEF ApiInv, ApiTypes
  <2> QED BY <2>1, Zenon DEF Engine
<1>5. Shrinks
  BY <1>2, <1>4, Zenon DEF Shrinks, QueueShrinks, Handled, SameButReply
<1>6. HeldInv' /\ \A d \in Calls : SenderHeld(d)' => SenderHeld(d)
  BY <1>5, HeldShrinks, Zenon
<1>7. ApiTypes'
  BY <1>2, <1>4, Zenon DEF ApiInv, ApiTypes, Handled
<1>8. PositionsInv'
  BY <1>4, Zenon DEF ApiInv, PositionsInv, NotesInv, CommandsInv, Handled
<1>9. smApplied' \in Nat /\ smApplied <= smApplied'
  BY DEF ApiInv, ApiTypes, Handled
<1>10. /\ c \notin checks /\ c \notin CallsIn(apiq')
       /\ \A i \in 1..Len(smq) : c \notin smq[i].calls
       /\ SenderHeld(c)
  BY HandledIsOpen, Zenon
<1>11. Told1(c)
  <2>1. ~SenderHeld(c)'
    BY <1>4, <1>10, Zenon DEF SenderHeld
  <2> QED BY <1>2, <1>10, <2>1, Zenon DEF Told1
<1>12. ASSUME NEW d \in PendingCalls, d # c PROVE Told1(d)
  <2>1. /\ d \in Calls /\ SenderHeld(d) /\ d \notin CallsIn(apiq) /\ d \notin checks
        /\ \A i \in 1..Len(smq) : d \notin smq[i].calls
    BY PendingHeldOnce, Zenon
  <2>2. ~SenderHeld(d)'
    BY <1>4, <2>1, Zenon DEF SenderHeld, Handled
  <2> QED BY <1>2, <1>3, <1>12, <2>1, <2>2, Zenon DEF Told1
<1>13. ASSUME NEW d \in Calls, d # c, d \notin PendingCalls PROVE Untold(d)
  BY <1>2, <1>3, <1>6, <1>13, Zenon DEF Untold
<1>14. \A d \in Calls : ToldInv(d)'
  BY <1>9, <1>11, <1>12, <1>13, ToldKeeps, UntoldKeeps, Zenon
<1> QED BY <1>6, <1>7, <1>8, <1>14, Zenon DEF ApiInv


LEMMA ApiMsgKeeps ==
  ASSUME ApiInv, handle_api_msg, UNCHANGED <<noteq, smApplied, mets, coreState>>,
         coreErr' \in Errors \cup {"none"}
  PROVE  ApiInv'
<1> DEFINE c == Head(apiq)
<1>1. apiq \in Seq(Calls) /\ NoneTwice(apiq) /\ apiq # <<>> /\ apiq' = Tail(apiq)
  BY Zenon DEF ApiInv, ApiTypes, HeldInv, QueuedInv, handle_api_msg
<1>2. c \in Calls /\ c \in CallsIn(apiq) /\ apiq' \in Seq(Calls) /\ NoneTwice(apiq')
      /\ CallsIn(apiq') \subseteq CallsIn(apiq) \ {c}
  BY <1>1, QueueTaken, Zenon
<1>3. Handled(c)
  BY <1>2, Zenon DEF Handled
<1> HIDE DEF c
<1>4. CASE write_entry(c)
  BY <1>2, <1>3, <1>4, WriteKeeps, Zenon
<1>5. CASE handle_check_is_leader_request(c)
  BY <1>2, <1>3, <1>5, LeaderCheckKeeps, Zenon
<1>6. CASE AnswerAtOnce(c)
  BY <1>2, <1>3, <1>6, AnswerKeeps, Zenon DEF AnswerAtOnce
<1>7. CASE PassToWorker(c)
  BY <1>2, <1>3, <1>7, PassKeeps, Zenon
<1>8. CASE NoAnswer(c)
  BY <1>2, <1>3, <1>8, NoAnswerKeeps, Zenon DEF NoAnswer
<1>9. CASE handle_append_entries_request(c)
  <2>1. call[c].kind = "append" /\ UNCHANGED checks
    BY <1>9, Zenon DEF handle_append_entries_request
  <2>2. CASE CommitAll([eng EXCEPT !.lead = FALSE]) /\ Answer(c, "ok")
    BY <1>2, <1>3, <2>1, <2>2, AppendCommitsKeeps, Zenon
  <2>3. CASE /\ eng' = [[eng EXCEPT !.lead = FALSE] EXCEPT !.pending = {}]
             /\ call' = [d \in Calls |->
                    IF d = c THEN [call[d] EXCEPT !.reply = "ok"]
                    ELSE IF d \in PendingCalls THEN [call[d] EXCEPT !.reply = "forward"]
                    ELSE call[d]]
             /\ UNCHANGED smq
    BY <1>2, <1>3, <2>1, <2>3, AppendReplacesKeeps, Zenon
  <2> QED BY <1>9, <2>2, <2>3, Zenon DEF handle_append_entries_request
<1> QED BY <1>4, <1>5, <1>6, <1>7, <1>8, <1>9, Zenon DEF handle_api_msg, c

-----------------------------------------------------------------------------
(* RaftCore handles a notification *)

LEMMA NoteTaken ==
  ASSUME ApiInv, noteq # <<>>, noteq' = Tail(noteq), UNCHANGED smApplied
  PROVE  /\ Head(noteq) \in Notes /\ noteq' \in Seq(Notes) /\ NotesInv'
         /\ Head(noteq).what = "applied" => Head(noteq).upto <= smApplied
<1>1. noteq \in Seq(Notes)
  BY Zenon DEF ApiInv, ApiTypes
<1>2. /\ noteq' \in Seq(Notes) /\ Head(noteq) = noteq[1] /\ Len(noteq') = Len(noteq) - 1
      /\ Len(noteq) \in Nat \ {0} /\ \A i \in 1..Len(noteq') : noteq'[i] = noteq[i + 1]
  BY <1>1
<1>3. Head(noteq) \in Notes
  BY <1>1
<1>4. NotesInv'
  <2>1. ASSUME NEW i \in 1..Len(noteq') PROVE i + 1 \in 1..Len(noteq) /\ noteq'[i] = noteq[i + 1]
    BY <1>2
  <2> QED BY <2>1, Zenon DEF ApiInv, PositionsInv, NotesInv
<1>5. 1 \in 1..Len(noteq)
  BY <1>2
<1> QED BY <1>2, <1>3, <1>4, <1>5, Zenon DEF ApiInv, PositionsInv, NotesInv

LEMMA NotificationKeeps ==
  ASSUME ApiInv, handle_notification, UNCHANGED <<apiq, smApplied, mets, coreState>>,
         coreErr' \in Errors \cup {"none"}
  PROVE  ApiInv'
<1> DEFINE n == Head(noteq)
<1>1. noteq # <<>> /\ noteq' = Tail(noteq) /\ UNCHANGED <<call, checks>>
  BY Zenon DEF handle_notification
<1>2. /\ n \in Notes /\ noteq' \in Seq(Notes) /\ NotesInv'
      /\ n.what = "applied" => n.upto <= smApplied
  BY <1>1, NoteTaken, Zenon
<1> HIDE DEF n
<1>3. CASE n.what = "stored" /\ CommitAll(eng)
  <2>1. /\ eng' \in Engine /\ eng'.log = eng.log /\ eng'.committed = eng.log
        /\ eng'.applied = eng.applied /\ eng'.pending = {}
        /\ SmSend([do |-> "apply", upto |-> eng.log, calls |-> PendingCalls])
    BY <1>3, CommitAllIs, Zenon
  <2>2. Commits
    BY <1>1, <2>1, Zenon DEF Commits, ApiInv, HeldInv, QueuedInv
  <2>3. /\ smq' \in Seq(Commands) /\ CommandsInv' /\ HeldInv'
        /\ \A d \in Calls : SenderHeld(d)' => SenderHeld(d)
    BY <2>2, CommitsKeeps, Zenon
  <2>4. ApiTypes'
    BY <1>1, <1>2, <2>1, <2>3, Zenon DEF ApiInv, ApiTypes
  <2>5. PositionsInv'
    <3>1. /\ eng.committed \in Nat /\ eng.log \in Nat /\ smApplied \in Nat
          /\ smApplied <= eng.committed /\ eng.committed <= eng.log
      BY Zenon DEF ApiInv, ApiTypes, Engine, PositionsInv
    <3> QED BY <1>2, <2>1, <2>3, <3>1 DEF ApiInv, PositionsInv
  <2>6. ASSUME NEW d \in Calls PROVE ToldInv(d)'
    <3>1. Untold(d)
      BY <1>1, <2>3, Zenon DEF Untold, SameButReply
    <3>2. smApplied' \in Nat /\ smApplied <= smApplied'
      BY DEF ApiInv, ApiTypes
    <3> QED BY <3>1, <3>2, UntoldKeeps, Zenon
  <2> QED BY <2>3, <2>4, <2>5, <2>6, Zenon DEF ApiInv
<1>4. CASE /\ \/ eng' = eng
              \/ eng' = [eng EXCEPT !.lead = FALSE]
              \/ n.what = "applied" /\ eng' = [eng EXCEPT !.applied = n.upto]
           /\ UNCHANGED smq
  <2>1. n.upto \in Nat /\ eng \in Engine
    BY <1>2, Zenon DEF ApiInv, ApiTypes, Notes
  <2>2. /\ eng' \in Engine /\ eng'.log = eng.log /\ eng'.committed = eng.committed
        /\ eng'.pending = eng.pending /\ eng'.applied <= smApplied
    <3>1. CASE eng' = eng
      BY <2>1, <3>1, Zenon DEF ApiInv, PositionsInv
    <3>2. CASE eng' = [eng EXCEPT !.lead = FALSE]
      <4>1. eng.applied <= smApplied
        BY Zenon DEF ApiInv, PositionsInv
      <4> QED BY <2>1, <3>2, <4>1, Zenon DEF Engine
    <3>3. CASE n.what = "applied" /\ eng' = [eng EXCEPT !.applied = n.upto]
      BY <1>2, <2>1, <3>3, Zenon DEF Engine
    <3> QED BY <1>4, <3>1, <3>2, <3>3, Zenon
  <2>3. Shrinks /\ SameReplies
    BY <1>1, <1>4, <2>2, Zenon DEF Shrinks, QueueShrinks, SameReplies, SameButReply, ApiInv, HeldInv, QueuedInv
  <2>4. ApiTypes'
    BY <1>1, <1>2, <1>4, <2>2, Zenon DEF ApiInv, ApiTypes
  <2>5. PositionsInv'
    BY <1>2, <1>4, <2>2, Zenon DEF ApiInv, PositionsInv, CommandsInv
  <2>6. smApplied <= smApplied'
    BY DEF ApiInv, ApiTypes
  <2> QED BY <2>3, <2>4, <2>5, <2>6, ShrinkKeeps, Zenon
<1>5. CASE n.what = "stored" /\ eng.lead
  BY <1>3, <1>5, Zenon DEF handle_notification, n
<1>6. CASE n.what = "applied"
  BY <1>4, <1>6, Zenon DEF handle_notification, n
<1>7. CASE n.what = "higher"
  BY <1>4, <1>7, Zenon DEF handle_notification, n
<1>8. CASE ~(n.what = "stored" /\ eng.lead) /\ n.what \notin {"applied", "higher"}
  BY <1>4, <1>8, Zenon DEF handle_notification, n
<1> QED BY <1>5, <1>6, <1>7, <1>8, Zenon


-----------------------------------------------------------------------------
(* The loop of RaftCore *)

\* The metrics change, or nothing that is shared.
LEMMA ReportKeeps ==
  ASSUME ApiInv, SameReplies, call' \in [Calls -> CallRecord],
         UNCHANGED <<apiq, noteq, smq, smApplied, eng, checks, coreState>>,
         coreErr' \in Errors \cup {"none"},
         mets' \in Metrics, mets'.raft.applied <= smApplied
  PROVE  ApiInv'
<1>1. Shrinks
  BY Zenon DEF Shrinks, QueueShrinks, SameReplies, SameButReply, ApiInv, HeldInv, QueuedInv
<1>2. ApiTypes'
  BY Zenon DEF ApiInv, ApiTypes
<1>3. PositionsInv'
  BY Zenon DEF ApiInv, PositionsInv, NotesInv, CommandsInv
<1>4. smApplied <= smApplied'
  BY DEF ApiInv, ApiTypes
<1> QED BY <1>1, <1>2, <1>3, <1>4, ShrinkKeeps, Zenon

LEMMA FreshIsSame ==
  ASSUME ApiInv, call' \in {call, Fresh}
  PROVE  SameReplies /\ call' \in [Calls -> CallRecord]
<1>1. call \in [Calls -> CallRecord]
  BY Zenon DEF ApiInv, ApiTypes
<1>2. CASE call' = call
  BY <1>1, <1>2, Zenon DEF SameReplies, SameButReply
<1>3. CASE call' = Fresh
  <2>1. \A c \in Calls : LET new == [call[c] EXCEPT !.fresh = TRUE]
                         IN  /\ new \in CallRecord /\ new.kind = call[c].kind /\ new.pc = call[c].pc
                             /\ new.res = call[c].res /\ new.reply = call[c].reply
                             /\ new.want = call[c].want /\ new.acked = call[c].acked
                             /\ new.seen = call[c].seen
    BY <1>1, Zenon DEF CallRecord
  <2> QED BY <1>3, <2>1, Zenon DEF Fresh, SameReplies, SameButReply
<1> QED BY <1>2, <1>3, Zenon

LEMMA ReportsKeep ==
  ASSUME ApiInv, ReportData \/ ReportServer \/ ReportRaft \/ CloseMetrics
  PROVE  ApiInv'
<1>0. /\ mets \in Metrics /\ eng.applied \in Nat /\ eng.lead \in BOOLEAN
      /\ eng.applied <= smApplied /\ mets.raft.applied <= smApplied
      /\ coreErr \in Errors \cup {"none"}
  BY Zenon DEF ApiInv, ApiTypes, Engine, PositionsInv
<1>1. CASE ReportData
  <2>1. mets' \in Metrics /\ mets'.raft.applied <= smApplied
    BY <1>0, <1>1, Zenon DEF ReportData, Metrics
  <2>2. SameReplies /\ call' \in [Calls -> CallRecord]
    BY <1>1, FreshIsSame, Zenon DEF ReportData
  <2> QED BY <1>0, <1>1, <2>1, <2>2, ReportKeeps, Zenon DEF ReportData, smVars
<1>2. CASE ReportServer
  <2>1. mets' \in Metrics /\ mets'.raft.applied <= smApplied
    BY <1>0, <1>2, Zenon DEF ReportServer, Metrics
  <2>2. SameReplies /\ call' \in [Calls -> CallRecord]
    BY <1>2, FreshIsSame, Zenon DEF ReportServer
  <2> QED BY <1>0, <1>2, <2>1, <2>2, ReportKeeps, Zenon DEF ReportServer, smVars
<1>3. CASE ReportRaft
  <2> DEFINE r == [mets.raft EXCEPT !.applied = eng.applied]
             s == [r EXCEPT !.lead = eng.lead]
  <2>1. mets' \in Metrics /\ mets'.raft.applied <= smApplied
    <3>1. mets.raft \in [applied : Nat, lead : BOOLEAN, up : BOOLEAN]
      BY <1>0, Zenon DEF Metrics
    <3>2. s \in [applied : Nat, lead : BOOLEAN, up : BOOLEAN] /\ s.applied = eng.applied
      BY <1>0, <3>1, Zenon
    <3>3. mets' = [mets EXCEPT !.raft = s]
      BY <1>0, <1>3, <3>1, Zenon DEF ReportRaft, Metrics
    <3> HIDE DEF r, s
    <3> QED BY <1>0, <3>2, <3>3, Zenon DEF Metrics
  <2>2. SameReplies /\ call' \in [Calls -> CallRecord]
    BY <1>3, FreshIsSame, Zenon DEF ReportRaft
  <2> QED BY <1>0, <1>3, <2>1, <2>2, ReportKeeps, Zenon DEF ReportRaft, smVars
<1>4. CASE CloseMetrics
  <2>1. mets' \in Metrics /\ mets'.raft.applied <= smApplied
    BY <1>0, <1>4, Zenon DEF CloseMetrics, Metrics
  <2>2. SameReplies /\ call' \in [Calls -> CallRecord]
    BY <1>4, FreshIsSame, Zenon DEF CloseMetrics
  <2> QED BY <1>0, <1>4, <2>1, <2>2, ReportKeeps, Zenon DEF CloseMetrics, smVars
<1> QED BY <1>1, <1>2, <1>3, <1>4, Zenon

LEMMA EndedKeeps ==
  ASSUME ApiInv, NEW err \in Errors \cup {"none"}, Ended(err)
  PROVE  ApiInv'
<1>1. /\ apiq' = <<>> /\ noteq' = <<>> /\ coreErr' = err
      /\ UNCHANGED <<call, smq, smApplied, coreState, checks>>
  BY Zenon DEF Ended, smVars
<1>2. /\ eng' \in Engine /\ eng'.log = eng.log /\ eng'.committed = eng.committed
      /\ eng'.applied = eng.applied /\ eng'.pending = {}
  <2>1. eng \in Engine
    BY Zenon DEF ApiInv, ApiTypes
  <2> QED BY <2>1, Zenon DEF Ended, Engine
<1>3. mets' \in Metrics /\ mets'.raft = mets.raft
  <2>1. mets \in Metrics
    BY Zenon DEF ApiInv, ApiTypes
  <2> QED BY <2>1, Zenon DEF Ended, Metrics
<1>4. Shrinks /\ SameReplies
  BY <1>1, <1>2 DEF Shrinks, QueueShrinks, SameReplies, SameButReply, NoneTwice, CallsIn
<1>5. ApiTypes'
  <2>1. apiq' \in Seq(Calls) /\ noteq' \in Seq(Notes)
    BY <1>1
  <2> QED BY <1>1, <1>2, <1>3, <2>1, Zenon DEF ApiInv, ApiTypes
<1>6. PositionsInv'
  <2>1. NotesInv'
    BY <1>1 DEF NotesInv
  <2>2. CommandsInv'
    BY <1>1, <1>2, Zenon DEF ApiInv, PositionsInv, CommandsInv
  <2> QED BY <1>1, <1>2, <1>3, <2>1, <2>2, Zenon DEF ApiInv, PositionsInv
<1>7. smApplied <= smApplied'
  BY <1>1 DEF ApiInv, ApiTypes
<1> QED BY <1>4, <1>5, <1>6, <1>7, ShrinkKeeps, Zenon

\* A round of the loop that only moves on.
LEMMA MoveOnKeeps ==
  ASSUME ApiInv, UNCHANGED <<call, apiq, noteq, smq, smApplied, eng, checks, mets, coreState>>,
         coreErr' \in Errors \cup {"none"}
  PROVE  ApiInv'
<1>1. SameReplies /\ call' \in [Calls -> CallRecord]
  BY FreshIsSame, Zenon
<1>2. mets' \in Metrics /\ mets'.raft.applied <= smApplied
  BY Zenon DEF ApiInv, ApiTypes, PositionsInv
<1> QED BY <1>1, <1>2, ReportKeeps, Zenon

LEMMA CoreStepKeeps ==
  ASSUME ApiInv, CoreStep \/ CorePanics
  PROVE  ApiInv'
<1>0. coreErr \in Errors \cup {"none"}
  BY Zenon DEF ApiInv, ApiTypes
<1>1. \A pc : GoOn(pc) \/ Noted(pc) => coreErr' \in Errors \cup {"none"}
  BY <1>0, Zenon DEF GoOn, Noted, Fails, Errors
<1>2. CASE ReportData \/ ReportServer \/ ReportRaft \/ CloseMetrics
  BY <1>2, ReportsKeep, Zenon
<1>3. CASE DropCore
  BY <1>0, <1>3, EndedKeeps, Zenon DEF DropCore
<1>4. CASE CorePanics
  BY <1>4, EndedKeeps, Zenon DEF CorePanics, Errors
<1>5. CASE Select
  <2>1. UNCHANGED <<smApplied, mets, coreState>>
    BY <1>5, Zenon DEF Select, coreRest
  <2>2. CASE coreErr' = "stopped" /\ UNCHANGED <<call, apiq, noteq, smq, eng, checks>>
    BY <2>1, <2>2, MoveOnKeeps, Zenon DEF Errors
  <2>3. CASE handle_notification /\ Noted("msg") /\ UNCHANGED apiq
    BY <1>1, <2>1, <2>3, NotificationKeeps, Zenon
  <2>4. CASE handle_api_msg /\ GoOn("msg") /\ UNCHANGED noteq
    BY <1>1, <2>1, <2>4, ApiMsgKeeps, Zenon
  <2> QED BY <1>5, <2>2, <2>3, <2>4, Zenon DEF Select
<1>6. CASE process_raft_msg
  <2>1. UNCHANGED <<smApplied, mets, coreState>>
    BY <1>6, Zenon DEF process_raft_msg, coreRest
  <2>2. CASE UNCHANGED <<call, apiq, noteq, smq, eng, checks, coreErr>>
    BY <1>0, <2>1, <2>2, MoveOnKeeps, Zenon
  <2>3. CASE handle_api_msg /\ GoOn(IF corePc = "msg" THEN "msgs" ELSE "note") /\ UNCHANGED noteq
    BY <1>1, <2>1, <2>3, ApiMsgKeeps, Zenon
  <2> QED BY <1>6, <2>2, <2>3, Zenon DEF process_raft_msg
<1>7. CASE process_notification
  <2>1. UNCHANGED <<smApplied, mets, coreState>>
    BY <1>7, Zenon DEF process_notification, coreRest
  <2>2. CASE UNCHANGED <<call, apiq, noteq, smq, eng, checks, coreErr>>
    BY <1>0, <2>1, <2>2, MoveOnKeeps, Zenon
  <2>3. CASE /\ handle_notification /\ Noted(IF corePc = "note" THEN "notes" ELSE "data")
             /\ UNCHANGED apiq
    BY <1>1, <2>1, <2>3, NotificationKeeps, Zenon
  <2> QED BY <1>7, <2>2, <2>3, Zenon DEF process_notification
<1> QED BY <1>2, <1>3, <1>4, <1>5, <1>6, <1>7, Zenon DEF CoreStep


-----------------------------------------------------------------------------
(* The other tasks *)

LEMMA NoteSent ==
  ASSUME ApiInv, NEW n \in Notes, Notify(n), n.what = "applied" => n.upto <= smApplied,
         UNCHANGED smApplied
  PROVE  noteq' \in Seq(Notes) /\ NotesInv'
<1>1. noteq \in Seq(Notes)
  BY Zenon DEF ApiInv, ApiTypes
<1>2. CASE noteq' = noteq
  BY <1>1, <1>2, Zenon DEF ApiInv, PositionsInv, NotesInv
<1>3. CASE noteq' = Append(noteq, n)
  <2>1. /\ noteq' \in Seq(Notes) /\ Len(noteq') = Len(noteq) + 1 /\ Len(noteq) \in Nat
        /\ \A i \in 1..Len(noteq) : noteq'[i] = noteq[i]
        /\ noteq'[Len(noteq) + 1] = n
    BY <1>1, <1>3
  <2>2. \A i \in 1..Len(noteq') : i \in 1..Len(noteq) \/ i = Len(noteq) + 1
    BY <2>1
  <2> QED BY <2>1, <2>2, Zenon DEF ApiInv, PositionsInv, NotesInv
<1> QED BY <1>2, <1>3, Zenon DEF Notify

\* Only the notifications and the worker's queue change.
LEMMA TellsKeeps ==
  ASSUME ApiInv, UNCHANGED <<call, apiq, smApplied, eng, checks, mets, coreState, coreErr>>,
         QueueShrinks, noteq' \in Seq(Notes), NotesInv'
  PROVE  ApiInv'
<1>1. Shrinks /\ SameReplies
  BY Zenon DEF Shrinks, SameReplies, SameButReply, ApiInv, HeldInv, QueuedInv
<1>2. smq' \in Seq(Commands)
  BY CommandsShrink, Zenon
<1>3. PICK k \in {0, 1} : \A i \in 1..Len(smq') : i + k \in 1..Len(smq) /\ smq'[i] = smq[i + k]
  BY CommandsShrink, Zenon
<1>4. CommandsInv'
  <2>1. ASSUME NEW i \in 1..Len(smq'), smq'[i].do = "apply"
        PROVE  smApplied <= smq'[i].upto /\ smq'[i].upto <= eng.committed
    BY <1>3, <2>1, Zenon DEF ApiInv, PositionsInv, CommandsInv
  <2>2. ASSUME NEW i \in 1..Len(smq'), NEW j \in 1..Len(smq'), i < j,
               smq'[i].do = "apply", smq'[j].do = "apply"
        PROVE  smq'[i].upto <= smq'[j].upto
    <3>1. /\ i + k \in 1..Len(smq) /\ j + k \in 1..Len(smq) /\ i + k < j + k
          /\ smq'[i] = smq[i + k] /\ smq'[j] = smq[j + k]
      BY <1>3, <2>2
    <3> QED BY <2>2, <3>1, Zenon DEF ApiInv, PositionsInv, CommandsInv
  <2> QED BY <2>1, <2>2, Zenon DEF CommandsInv
<1>5. ApiTypes'
  BY <1>2, Zenon DEF ApiInv, ApiTypes
<1>6. PositionsInv'
  BY <1>4, Zenon DEF ApiInv, PositionsInv
<1>7. smApplied <= smApplied'
  BY DEF ApiInv, ApiTypes
<1> QED BY <1>1, <1>5, <1>6, <1>7, ShrinkKeeps, Zenon

\* The first command of the worker, and what comes after it.
LEMMA CommandTaken ==
  ASSUME ApiInv, smq # <<>>, smq' = Tail(smq)
  PROVE  /\ Head(smq) = smq[1] /\ smq[1] \in Commands /\ 1 \in 1..Len(smq)
         /\ smq' \in Seq(Commands)
         /\ \A i \in 1..Len(smq') :
              i + 1 \in 1..Len(smq) /\ 1 < i + 1 /\ smq'[i] = smq[i + 1] /\ smq[i + 1] \in Commands
<1>1. smq \in Seq(Commands)
  BY Zenon DEF ApiInv, ApiTypes
<1>2. /\ Head(smq) = smq[1] /\ 1 \in 1..Len(smq) /\ smq' \in Seq(Commands)
      /\ Len(smq') = Len(smq) - 1 /\ Len(smq) \in Nat \ {0}
      /\ \A i \in 1..Len(smq') : smq'[i] = smq[i + 1]
  BY <1>1
<1>3. \A i \in 1..Len(smq) : smq[i] \in Commands
  BY <1>1
<1> QED BY <1>2, <1>3

\* Every caller of a command waits for it alone.
LEMMA CommandHeldOnce ==
  ASSUME ApiInv, smq # <<>>, smq' = Tail(smq), UNCHANGED <<apiq, checks, eng>>,
         NEW d \in smq[1].calls
  PROVE  d \in Calls /\ SenderHeld(d) /\ ~SenderHeld(d)' /\ d \notin checks
<1>1. /\ Head(smq) = smq[1] /\ smq[1] \in Commands /\ 1 \in 1..Len(smq)
      /\ \A i \in 1..Len(smq') : i + 1 \in 1..Len(smq) /\ 1 < i + 1 /\ smq'[i] = smq[i + 1]
  BY CommandTaken, Zenon
<1>2. d \in Calls /\ smq[1].do \in {"apply", "sm", "snapshot"}
  BY <1>1, Zenon DEF Commands
<1>3. SenderHeld(d)
  BY <1>1, Zenon DEF SenderHeld
<1>4. d \notin CallsIn(apiq) /\ \A p \in eng.pending : p.call # d
  BY <1>1, Zenon DEF ApiInv, HeldInv, QueuedInv, PendingInv
<1>5. d \notin checks
  BY <1>1, <1>2 DEF ApiInv, HeldInv, CommandedInv, ChecksInv
<1>6. \A i \in 1..Len(smq') : d \notin smq'[i].calls
  <2>1. ASSUME NEW i \in 1..Len(smq'), d \in smq'[i].calls PROVE FALSE
    <3>1. i + 1 \in 1..Len(smq) /\ d \in smq[i + 1].calls /\ 1 # i + 1
      BY <1>1, <2>1
    <3> QED BY <1>1, <3>1, Zenon DEF ApiInv, HeldInv, CommandedInv
  <2> QED BY <2>1, Zenon
<1> QED BY <1>2, <1>3, <1>4, <1>5, <1>6, Zenon DEF SenderHeld

LEMMA WorkerAnswersKeeps ==
  ASSUME ApiInv, smq # <<>>, smq' = Tail(smq),
         call' = [c \in Calls |-> IF c \in Head(smq).calls THEN [call[c] EXCEPT !.reply = "ok"]
                                  ELSE call[c]],
         IF Head(smq).do = "apply" THEN smApplied' = Head(smq).upto ELSE UNCHANGED smApplied,
         UNCHANGED <<apiq, noteq, eng, checks, mets, coreState, coreErr>>
  PROVE  ApiInv'
<1>1. /\ Head(smq) = smq[1] /\ smq[1] \in Commands /\ 1 \in 1..Len(smq) /\ smq' \in Seq(Commands)
      /\ \A i \in 1..Len(smq') :
           i + 1 \in 1..Len(smq) /\ 1 < i + 1 /\ smq'[i] = smq[i + 1] /\ smq[i + 1] \in Commands
  BY CommandTaken, Zenon
<1>2. \A d \in Calls :
        LET new == [call[d] EXCEPT !.reply = "ok"]
        IN  /\ new \in CallRecord /\ new.kind = call[d].kind /\ new.pc = call[d].pc
            /\ new.res = call[d].res /\ new.reply = "ok" /\ new.want = call[d].want
            /\ new.acked = call[d].acked /\ new.seen = call[d].seen
  BY Zenon DEF ApiInv, ApiTypes, CallRecord, Replies
<1>3. call' \in [Calls -> CallRecord] /\ \A d \in Calls : SameButReply(d)
  BY <1>1, <1>2, Zenon DEF ApiInv, ApiTypes, SameButReply
<1>4. \A d \in Calls : d \notin smq[1].calls => call'[d].reply = call[d].reply
  BY <1>1, Zenon
<1>5. Shrinks
  BY <1>3, Zenon DEF Shrinks, QueueShrinks, SameButReply, ApiInv, HeldInv, QueuedInv
<1>6. HeldInv' /\ \A d \in Calls : SenderHeld(d)' => SenderHeld(d)
  BY <1>5, HeldShrinks, Zenon
<1>7. /\ smApplied' \in Nat /\ smApplied <= smApplied' /\ smApplied' <= eng.committed
      /\ smq[1].do = "apply" => smApplied' = smq[1].upto
  <2>1. smApplied \in Nat /\ smq[1].upto \in Nat /\ smApplied <= eng.committed
    BY <1>1, Zenon DEF ApiInv, ApiTypes, PositionsInv, Commands
  <2>2. smq[1].do = "apply" => smApplied <= smq[1].upto /\ smq[1].upto <= eng.committed
    BY <1>1, Zenon DEF ApiInv, PositionsInv, CommandsInv
  <2> QED BY <1>1, <2>1, <2>2
<1>8. ApiTypes'
  BY <1>1, <1>3, <1>7, Zenon DEF ApiInv, ApiTypes
<1>9. CommandsInv'
  <2>1. ASSUME NEW i \in 1..Len(smq'), smq'[i].do = "apply"
        PROVE  smApplied' <= smq'[i].upto /\ smq'[i].upto <= eng.committed
    <3>1. i + 1 \in 1..Len(smq) /\ 1 < i + 1 /\ smq'[i] = smq[i + 1]
      BY <1>1, Zenon
    <3>2. CASE smq[1].do = "apply"
      BY <1>1, <1>7, <2>1, <3>1, <3>2, Zenon DEF ApiInv, PositionsInv, CommandsInv
    <3>3. CASE smq[1].do # "apply"
      BY <1>1, <2>1, <3>1, <3>3 DEF ApiInv, PositionsInv, CommandsInv
    <3> QED BY <3>2, <3>3, Zenon
  <2>2. ASSUME NEW i \in 1..Len(smq'), NEW j \in 1..Len(smq'), i < j,
               smq'[i].do = "apply", smq'[j].do = "apply"
        PROVE  smq'[i].upto <= smq'[j].upto
    <3>1. /\ i + 1 \in 1..Len(smq) /\ j + 1 \in 1..Len(smq) /\ i + 1 < j + 1
          /\ smq'[i] = smq[i + 1] /\ smq'[j] = smq[j + 1]
      BY <1>1, <2>2
    <3> QED BY <2>2, <3>1 DEF ApiInv, PositionsInv, CommandsInv
  <2> QED BY <2>1, <2>2, Zenon DEF CommandsInv
<1>10. PositionsInv'
  <2>1. /\ smApplied \in Nat /\ eng.applied \in Nat /\ mets.raft.applied \in Nat
        /\ eng.applied <= smApplied /\ mets.raft.applied <= smApplied /\ eng.committed <= eng.log
    BY Zenon DEF ApiInv, ApiTypes, Engine, Metrics, PositionsInv
  <2>2. NotesInv'
    <3>1. \A i \in 1..Len(noteq) : noteq[i].upto \in Nat
      <4>1. \A i \in 1..Len(noteq) : noteq[i] \in Notes
        BY DEF ApiInv, ApiTypes
      <4> QED BY <4>1, Zenon DEF Notes
    <3> QED BY <1>7, <2>1, <3>1 DEF ApiInv, PositionsInv, NotesInv
  <2> QED BY <1>7, <1>9, <2>1, <2>2 DEF PositionsInv
<1>11. ASSUME NEW d \in smq[1].calls PROVE d \in Calls /\ Told1(d)
  <2>1. d \in Calls /\ SenderHeld(d) /\ ~SenderHeld(d)' /\ d \notin checks
    BY CommandHeldOnce, Zenon
  <2>2. call[d].kind = "write" => call[d].want <= smApplied'
    BY <1>1, <1>7 DEF ApiInv, HeldInv, CommandedInv, Commands
  <2>3. call[d].kind \notin {"read", "lease"}
    <3>1. smq[1].do \in {"apply", "sm", "snapshot"}
      BY <1>1, Zenon DEF Commands
    <3> QED BY <1>1, <3>1, Zenon DEF ApiInv, HeldInv, CommandedInv
  <2> QED BY <1>3, <2>1, <2>2, <2>3, Zenon DEF Told1
<1>12. ASSUME NEW d \in Calls, d \notin smq[1].calls PROVE Untold(d)
  BY <1>3, <1>4, <1>6, <1>12, Zenon DEF Untold
<1>13. \A d \in Calls : ToldInv(d)'
  BY <1>7, <1>11, <1>12, ToldKeeps, UntoldKeeps, Zenon
<1> QED BY <1>6, <1>8, <1>10, <1>13, Zenon DEF ApiInv


LEMMA WorkerKeeps ==
  ASSUME ApiInv, worker_loop
  PROVE  ApiInv'
<1>1. /\ smq # <<>> /\ smq' = Tail(smq)
      /\ UNCHANGED <<apiq, noteq, eng, checks, mets, coreState, coreErr>>
  BY Zenon DEF worker_loop, taskRest, coreVars
<1>2. CASE /\ call' = [c \in Calls |-> IF c \in Head(smq).calls
                                       THEN [call[c] EXCEPT !.reply = "ok"] ELSE call[c]]
           /\ IF Head(smq).do = "apply" THEN smApplied' = Head(smq).upto ELSE UNCHANGED smApplied
  BY <1>1, <1>2, WorkerAnswersKeeps, Zenon
<1>3. CASE UNCHANGED <<call, smApplied>>
  <2>1. QueueShrinks
    BY <1>1, Zenon DEF QueueShrinks
  <2>2. noteq' \in Seq(Notes) /\ NotesInv'
    BY <1>1, <1>3, Zenon DEF ApiInv, ApiTypes, PositionsInv, NotesInv
  <2> QED BY <1>1, <1>3, <2>1, <2>2, TellsKeeps, Zenon
<1> QED BY <1>2, <1>3, Zenon DEF worker_loop

LEMMA CheckAnswersKeeps ==
  ASSUME ApiInv, NEW c \in Calls, CheckAnswers(c)
  PROVE  ApiInv'
<1>1. PICK res \in {"ok", "few", "forward"} : Answer(c, res)
  BY Zenon DEF CheckAnswers
<1>2. /\ c \in checks /\ checks' = checks \ {c}
      /\ UNCHANGED <<apiq, smq, smApplied, eng, mets, coreState, coreErr>>
  BY Zenon DEF CheckAnswers, smVars
<1>3. noteq' \in Seq(Notes) /\ NotesInv'
  <2>1. CASE UNCHANGED noteq
    BY <1>2, <2>1, Zenon DEF ApiInv, ApiTypes, PositionsInv, NotesInv
  <2>2. CASE Notify([what |-> "higher", upto |-> 0])
    BY <1>2, <2>2, NoteSent, Zenon DEF Notes
  <2> QED BY <2>1, <2>2, Zenon DEF CheckAnswers
<1> DEFINE new == [call[c] EXCEPT !.reply = res]
<1>4. /\ new \in CallRecord /\ new.kind = call[c].kind /\ new.pc = call[c].pc /\ new.res = call[c].res
      /\ new.reply = res /\ new.want = call[c].want /\ new.acked = call[c].acked
      /\ new.seen = call[c].seen
  BY Zenon DEF ApiInv, ApiTypes, CallRecord, Replies
<1>5. Changes(c, new)
  BY <1>1, <1>4, Zenon DEF Answer, Set, Changes
<1> HIDE DEF new
<1>6. call' \in [Calls -> CallRecord] /\ call'[c] = new /\ \A d \in Calls : d # c => call'[d] = call[d]
  BY <1>5, Changed, Zenon
<1>7. Shrinks
  BY <1>2, <1>4, <1>6, Zenon DEF Shrinks, QueueShrinks, ApiInv, HeldInv, QueuedInv
<1>8. HeldInv' /\ \A d \in Calls : SenderHeld(d)' => SenderHeld(d)
  BY <1>7, HeldShrinks, Zenon
<1>9. ApiTypes'
  BY <1>2, <1>3, <1>6, Zenon DEF ApiInv, ApiTypes
<1>10. PositionsInv'
  BY <1>2, <1>3, Zenon DEF ApiInv, PositionsInv, CommandsInv
<1>11. smApplied' \in Nat /\ smApplied <= smApplied'
  BY <1>2 DEF ApiInv, ApiTypes
<1>12. call[c].kind = "read" /\ c \notin CallsIn(apiq) /\ \A p \in eng.pending : p.call # c
  BY <1>2, Zenon DEF ApiInv, HeldInv, QueuedInv, PendingInv, ChecksInv
<1>13. \A i \in 1..Len(smq) : c \notin smq[i].calls
  <2>1. \A i \in 1..Len(smq) : smq[i] \in Commands
    BY DEF ApiInv, ApiTypes
  <2>2. \A i \in 1..Len(smq) : smq[i].do \in {"apply", "sm", "snapshot"}
    BY <2>1, Zenon DEF Commands
  <2> QED BY <1>12, <2>2, Zenon DEF ApiInv, HeldInv, CommandedInv
<1>14. SenderHeld(c) /\ ~SenderHeld(c)'
  BY <1>2, <1>12, <1>13, Zenon DEF SenderHeld
<1>15. \A n \in call[c].acked : n <= call[c].want
  BY <1>2, <1>12 DEF ApiInv, ToldInv
<1>16. Told1(c)
  BY <1>2, <1>4, <1>6, <1>12, <1>14, <1>15, Zenon DEF Told1, SameButReply
<1>17. ASSUME NEW d \in Calls, d # c PROVE Untold(d)
  BY <1>2, <1>6, <1>8, <1>17, Zenon DEF Untold, SameButReply
<1>18. \A d \in Calls : ToldInv(d)'
  BY <1>11, <1>16, <1>17, ToldKeeps, UntoldKeeps, Zenon
<1> QED BY <1>8, <1>9, <1>10, <1>18, Zenon DEF ApiInv

LEMMA TaskStepKeeps ==
  ASSUME ApiInv, TaskStep \/ tick_loop \/ enable \/ Hears
  PROVE  ApiInv'
<1>0. smApplied \in Nat
  BY Zenon DEF ApiInv, ApiTypes
<1>1. ASSUME UNCHANGED <<noteq, smApplied>> PROVE noteq' \in Seq(Notes) /\ NotesInv'
  BY <1>1, Zenon DEF ApiInv, ApiTypes, PositionsInv, NotesInv
<1>2. CASE worker_loop
  BY <1>2, WorkerKeeps, Zenon
<1>3. CASE SmNotify
  <2>1. [what |-> "applied", upto |-> smApplied] \in Notes
    BY <1>0, Zenon DEF Notes
  <2>2. noteq' \in Seq(Notes) /\ NotesInv'
    BY <1>0, <1>3, <2>1, NoteSent DEF SmNotify
  <2> QED BY <1>3, <2>2, TellsKeeps, Zenon DEF SmNotify, taskRest, coreVars, QueueShrinks
<1>4. CASE SmFails
  <2>1. [what |-> "sm_error", upto |-> 0] \in Notes
    BY Zenon DEF Notes
  <2>2. noteq' \in Seq(Notes) /\ NotesInv'
    BY <1>4, <2>1, NoteSent, Zenon DEF SmFails
  <2> QED BY <1>4, <2>2, TellsKeeps, Zenon DEF SmFails, taskRest, coreVars, QueueShrinks
<1>5. CASE SmEnds
  BY <1>1, <1>5, TellsKeeps, Zenon DEF SmEnds, taskRest, coreVars, QueueShrinks
<1>6. ASSUME NEW c \in Calls, CheckAnswers(c) PROVE ApiInv'
  BY <1>6, CheckAnswersKeeps, Zenon
<1>7. CASE tick_loop
  <2>1. [what |-> "tick", upto |-> 0] \in Notes
    BY Zenon DEF Notes
  <2>2. UNCHANGED <<call, apiq, smq, smApplied, eng, checks, mets, coreState, coreErr>>
    BY <1>7, Zenon DEF tick_loop, taskRest, coreVars, smVars
  <2>3. noteq' \in Seq(Notes) /\ NotesInv'
    BY <1>1, <1>7, <2>1, <2>2, NoteSent, Zenon DEF tick_loop
  <2> QED BY <2>2, <2>3, TellsKeeps, Zenon DEF QueueShrinks
<1>8. CASE enable
  BY <1>1, <1>8, TellsKeeps, Zenon DEF enable, taskRest, coreVars, smVars, QueueShrinks
<1>9. CASE Hears
  <2>1. \A what \in {"stored", "higher"} : [what |-> what, upto |-> 0] \in Notes
    BY Zenon DEF Notes
  <2>2. UNCHANGED <<call, apiq, smq, smApplied, eng, checks, mets, coreState, coreErr>>
    BY <1>9, Zenon DEF Hears, taskRest, coreVars, smVars
  <2>3. noteq' \in Seq(Notes) /\ NotesInv'
    BY <1>9, <2>1, <2>2, NoteSent, Zenon DEF Hears
  <2> QED BY <2>2, <2>3, TellsKeeps, Zenon DEF QueueShrinks
<1> QED BY <1>2, <1>3, <1>4, <1>5, <1>6, <1>7, <1>8, <1>9, Zenon DEF TaskStep
=============================================================================
