--------------------------- MODULE ServiceProofs ---------------------------
(***************************************************************************)
(* Proofs about the services around the log: requests between two nodes    *)
(* (OctopiiRpc), the transfer of a chunk (ChunkTransfer), the clean marker *)
(* of a topic (TopicClean) and the gateway's batches (Gateway).            *)
(***************************************************************************)
EXTENDS OctopiiRpc, Gateway, ChunkTransfer, TopicClean, TLAPS

-----------------------------------------------------------------------------
(* Requests between nodes *)

CallStates ==
  {"new", "handshake", "ensure", "send", "wait", "done", "refused", "unsent", "timeout",
   "dropped"}

RpcCalls == [at : CallStates, link : 0..MaxLinks, answer : Calls \cup {"none"}]

\* Why a request gets its own answer: it enters the table when it begins, it
\* leaves the table exactly when its answer comes or when it gives up, and
\* what it has been given is its own.
CallOK(r) ==
  /\ calls[r].answer \in {"none", r}
  /\ calls[r].answer = r => r \notin pending
  /\ calls[r].at = "new" => calls[r].answer = "none" /\ r \notin pending
  /\ calls[r].at \in {"handshake", "ensure", "send", "wait"} =>
       r \in pending \/ calls[r].answer = r
  /\ r \in pending => calls[r].at \notin {"done", "timeout", "refused"}

RpcInv ==
  /\ cached \in 0..MaxLinks
  /\ calls \in [Calls -> RpcCalls]
  /\ pending \subseteq Calls
  /\ \A r \in Calls : CallOK(r)

\* Every step of the caller's side keeps RpcInv: the other requests are left
\* alone, so that it is enough to look at the one that moves.
LEMMA CallMoves ==
  ASSUME RpcInv, NEW r \in Calls, NEW at \in CallStates, NEW c \in 0..MaxLinks,
         Call(r, at, c), cached' \in 0..MaxLinks, pending' \in SUBSET Calls,
         \A s \in Calls : s # r => (s \in pending' <=> s \in pending)
  PROVE  /\ calls' \in [Calls -> RpcCalls]
         /\ \A s \in Calls : s # r => CallOK(s)'
         /\ calls'[r].at = at /\ calls'[r].answer = calls[r].answer
<1> DEFINE moved == [calls[r] EXCEPT !.at = at, !.link = c]
<1>1. moved \in RpcCalls /\ moved.at = at /\ moved.answer = calls[r].answer
  BY Zenon DEF RpcInv, RpcCalls
<1>2. calls' = [calls EXCEPT ![r] = moved]
  BY Zenon DEF Call
<1> HIDE DEF moved
<1>3. calls' \in [Calls -> RpcCalls] /\ calls'[r] = moved
  BY <1>1, <1>2, Zenon DEF RpcInv
<1>4. ASSUME NEW s \in Calls, s # r PROVE CallOK(s)'
  <2>1. calls'[s] = calls[s]
    BY <1>2, <1>4, Zenon DEF RpcInv
  <2>2. CallOK(s)
    BY Zenon DEF RpcInv
  <2> QED BY <1>4, <2>1, <2>2, Zenon DEF CallOK
<1> QED BY <1>1, <1>3, <1>4, Zenon

LEMMA RpcInvInit == RpcInit => RpcInv
BY RpcAssumption DEF RpcInit, RpcInv, RpcCalls, CallStates, CallOK

LEMMA RpcInvNext == RpcInv /\ [RpcNext]_rpcVars => RpcInv'
<1> SUFFICES ASSUME RpcInv, [RpcNext]_rpcVars PROVE RpcInv'
  BY Zenon
<1> USE RpcAssumption
<1>1. ASSUME NEW r \in Calls, StartRequest(r) PROVE RpcInv'
  <2>1. CallOK(r) /\ calls[r] \in RpcCalls
    BY Zenon DEF RpcInv
  <2>2. \E at \in {"ensure", "handshake"}, c \in 0..MaxLinks : Call(r, at, c)
    BY <1>1 DEF StartRequest, RpcInv
  <2>3. PICK at \in {"ensure", "handshake"}, c \in 0..MaxLinks : Call(r, at, c)
    BY <2>2, Zenon
  <2>4. at \in CallStates /\ cached' \in 0..MaxLinks /\ pending' \in SUBSET Calls
    BY <1>1, <2>3, Zenon DEF StartRequest, RpcInv, CallStates
  <2>5. \A s \in Calls : s # r => (s \in pending' <=> s \in pending)
    BY <1>1, Zenon DEF StartRequest
  <2>6. CallOK(r)'
    BY <1>1, <2>1, <2>3, <2>4, <2>5, CallMoves, Zenon DEF StartRequest, CallOK
  <2> QED BY <2>3, <2>4, <2>5, <2>6, CallMoves, Zenon DEF RpcInv
<1>2. ASSUME NEW r \in Calls, HandshakeDone(r) PROVE RpcInv'
  <2>1. CallOK(r) /\ calls[r] \in RpcCalls
    BY Zenon DEF RpcInv
  <2>2. PICK c \in 0..MaxLinks : Call(r, "ensure", c)
    BY <1>2 DEF HandshakeDone, RpcInv, Links
  <2>3. "ensure" \in CallStates /\ cached' \in 0..MaxLinks /\ pending' \in SUBSET Calls
    BY <1>2 DEF HandshakeDone, RpcInv, CallStates, Links
  <2>4. \A s \in Calls : s # r => (s \in pending' <=> s \in pending)
    BY <1>2, Zenon DEF HandshakeDone
  <2>5. CallOK(r)'
    BY <1>2, <2>1, <2>2, <2>3, <2>4, CallMoves DEF HandshakeDone, CallOK
  <2> QED BY <2>2, <2>3, <2>4, <2>5, CallMoves, Zenon DEF RpcInv
<1>3. ASSUME NEW r \in Calls, HandshakeFails(r) PROVE RpcInv'
  <2>1. CallOK(r) /\ calls[r] \in RpcCalls
    BY Zenon DEF RpcInv
  <2>2. PICK c \in 0..MaxLinks : Call(r, "refused", c)
    BY <1>3 DEF HandshakeFails, RpcInv, RpcCalls
  <2>3. "refused" \in CallStates /\ cached' \in 0..MaxLinks /\ pending' \in SUBSET Calls
    BY <1>3, Zenon DEF HandshakeFails, RpcInv, CallStates
  <2>4. \A s \in Calls : s # r => (s \in pending' <=> s \in pending)
    BY <1>3, Zenon DEF HandshakeFails
  <2>5. CallOK(r)'
    BY <1>3, <2>1, <2>2, <2>3, <2>4, CallMoves, Zenon DEF HandshakeFails, CallOK
  <2> QED BY <2>2, <2>3, <2>4, <2>5, CallMoves, Zenon DEF RpcInv
<1>4. ASSUME NEW r \in Calls, EnsureReceiver(r) PROVE RpcInv'
  <2>1. CallOK(r) /\ calls[r] \in RpcCalls
    BY Zenon DEF RpcInv
  <2>2. PICK c \in 0..MaxLinks : Call(r, "send", c)
    BY <1>4, Zenon DEF EnsureReceiver, RpcInv, RpcCalls
  <2>3. "send" \in CallStates /\ cached' \in 0..MaxLinks /\ pending' \in SUBSET Calls
    BY <1>4, Zenon DEF EnsureReceiver, RpcInv, CallStates
  <2>4. \A s \in Calls : s # r => (s \in pending' <=> s \in pending)
    BY <1>4, Zenon DEF EnsureReceiver
  <2>5. CallOK(r)'
    BY <1>4, <2>1, <2>2, <2>3, <2>4, CallMoves DEF EnsureReceiver, CallOK
  <2> QED BY <2>2, <2>3, <2>4, <2>5, CallMoves, Zenon DEF RpcInv
<1>5. ASSUME NEW r \in Calls, Sent(r) PROVE RpcInv'
  <2>1. CallOK(r) /\ calls[r] \in RpcCalls
    BY Zenon DEF RpcInv
  <2>2. PICK c \in 0..MaxLinks : Call(r, "wait", c)
    BY <1>5, Zenon DEF Sent, RpcInv, RpcCalls
  <2>3. "wait" \in CallStates /\ cached' \in 0..MaxLinks /\ pending' \in SUBSET Calls
    BY <1>5, Zenon DEF Sent, RpcInv, CallStates
  <2>4. \A s \in Calls : s # r => (s \in pending' <=> s \in pending)
    BY <1>5, Zenon DEF Sent
  <2>5. CallOK(r)'
    BY <1>5, <2>1, <2>2, <2>3, <2>4, CallMoves DEF Sent, CallOK
  <2> QED BY <2>2, <2>3, <2>4, <2>5, CallMoves, Zenon DEF RpcInv
<1>6. ASSUME NEW r \in Calls, SendFails(r) PROVE RpcInv'
  <2>1. CallOK(r) /\ calls[r] \in RpcCalls
    BY Zenon DEF RpcInv
  <2>2. PICK c \in 0..MaxLinks : Call(r, "unsent", c)
    BY <1>6 DEF SendFails, RpcInv, RpcCalls
  <2>3. "unsent" \in CallStates /\ cached' \in 0..MaxLinks /\ pending' \in SUBSET Calls
    BY <1>6 DEF SendFails, RpcInv, CallStates
  <2>4. \A s \in Calls : s # r => (s \in pending' <=> s \in pending)
    BY <1>6, Zenon DEF SendFails
  <2>5. CallOK(r)'
    BY <1>6, <2>1, <2>2, <2>3, <2>4, CallMoves DEF SendFails, CallOK
  <2> QED BY <2>2, <2>3, <2>4, <2>5, CallMoves, Zenon DEF RpcInv
<1>7. ASSUME NEW r \in Calls, Return(r) PROVE RpcInv'
  <2>1. CallOK(r) /\ calls[r] \in RpcCalls
    BY Zenon DEF RpcInv
  <2>2. PICK c \in 0..MaxLinks : Call(r, "done", c)
    BY <1>7 DEF Return, RpcInv, RpcCalls
  <2>3. "done" \in CallStates /\ cached' \in 0..MaxLinks /\ pending' \in SUBSET Calls
    BY <1>7, Zenon DEF Return, RpcInv, CallStates
  <2>4. \A s \in Calls : s # r => (s \in pending' <=> s \in pending)
    BY <1>7, Zenon DEF Return
  <2>5. CallOK(r)'
    BY <1>7, <2>1, <2>2, <2>3, <2>4, CallMoves DEF Return, CallOK
  <2> QED BY <2>2, <2>3, <2>4, <2>5, CallMoves, Zenon DEF RpcInv
<1>8. ASSUME NEW r \in Calls, RequestTimeout(r) PROVE RpcInv'
  <2>1. CallOK(r) /\ calls[r] \in RpcCalls
    BY Zenon DEF RpcInv
  <2>2. PICK c \in 0..MaxLinks : Call(r, "timeout", c)
    BY <1>8 DEF RequestTimeout, RpcInv, RpcCalls
  <2>3. "timeout" \in CallStates /\ cached' \in 0..MaxLinks /\ pending' \in SUBSET Calls
    BY <1>8, Zenon DEF RequestTimeout, Forgotten, RpcInv, CallStates
  <2>4. \A s \in Calls : s # r => (s \in pending' <=> s \in pending)
    BY <1>8, Zenon DEF RequestTimeout, Forgotten
  <2>5. CallOK(r)'
    BY <1>8, <2>1, <2>2, <2>3, <2>4, CallMoves DEF RequestTimeout, Forgotten, CallOK
  <2> QED BY <2>2, <2>3, <2>4, <2>5, CallMoves, Zenon DEF RpcInv
<1>9. ASSUME NEW r \in Calls, CallerGivesUp(r) PROVE RpcInv'
  <2>1. CallOK(r) /\ calls[r] \in RpcCalls
    BY Zenon DEF RpcInv
  <2>2. PICK c \in 0..MaxLinks : Call(r, "dropped", c)
    BY <1>9 DEF CallerGivesUp, RpcInv, RpcCalls
  <2>3. "dropped" \in CallStates /\ cached' \in 0..MaxLinks /\ pending' \in SUBSET Calls
    BY <1>9, Zenon DEF CallerGivesUp, RpcInv, CallStates
  <2>4. \A s \in Calls : s # r => (s \in pending' <=> s \in pending)
    BY <1>9, Zenon DEF CallerGivesUp
  <2>5. CallOK(r)'
    BY <1>9, <2>1, <2>2, <2>3, <2>4, CallMoves, Zenon DEF CallerGivesUp, CallOK
  <2> QED BY <2>2, <2>3, <2>4, <2>5, CallMoves, Zenon DEF RpcInv
<1>10. CASE ReceiveAnswer
  <2>1. PICK r \in Calls, a \in answers :
          /\ r = a.call /\ pending' = pending \ {r}
          /\ calls' = IF r \in pending THEN [calls EXCEPT ![r].answer = a.call] ELSE calls
    BY <1>10, Zenon DEF ReceiveAnswer, Takes
  <2>2. CallOK(r) /\ calls[r] \in RpcCalls
    BY Zenon DEF RpcInv
  <2>3. CASE r \notin pending
    BY <1>10, <2>1, <2>3, Zenon DEF ReceiveAnswer, RpcInv, CallOK
  <2>4. CASE r \in pending
    <3> DEFINE got == [calls[r] EXCEPT !.answer = r]
    <3>1. got \in RpcCalls /\ got.at = calls[r].at /\ got.answer = r
      BY <2>2, Zenon DEF RpcCalls
    <3>2. calls' = [calls EXCEPT ![r] = got]
      BY <2>1, <2>4, Zenon
    <3> HIDE DEF got
    <3>3. calls' \in [Calls -> RpcCalls] /\ calls'[r] = got
      BY <3>1, <3>2, Zenon DEF RpcInv
    <3>4. ASSUME NEW s \in Calls PROVE CallOK(s)'
      <4>1. CASE s = r
        BY <2>1, <2>2, <2>4, <3>1, <3>3, <4>1, Zenon DEF CallOK
      <4>2. CASE s # r
        <5>1. CallOK(s) /\ calls'[s] = calls[s]
          BY <3>2, <4>2, Zenon DEF RpcInv
        <5> QED BY <2>1, <4>2, <5>1, Zenon DEF CallOK
      <4> QED BY <4>1, <4>2, Zenon
    <3> QED BY <1>10, <2>1, <3>3, <3>4, Zenon DEF ReceiveAnswer, RpcInv
  <2> QED BY <2>3, <2>4, Zenon
<1>11. CASE UNCHANGED <<cached, calls, pending>>
  BY <1>11, Zenon DEF RpcInv, CallOK
<1>12. CASE PeerAnswers \/ ReceiverStops \/ ReceiverUnlisted \/ PeerRestarts
  BY <1>11, <1>12, Zenon DEF PeerAnswers, ReceiverStops, ReceiverUnlisted, PeerRestarts
<1>13. ASSUME NEW c \in Links, IdleTimeout(c) PROVE RpcInv'
  BY <1>11, <1>13, Zenon DEF IdleTimeout
<1>14. CASE UNCHANGED rpcVars
  BY <1>11, <1>14, Zenon DEF rpcVars
<1> QED
  BY <1>1, <1>2, <1>3, <1>4, <1>5, <1>6, <1>7, <1>8, <1>9, <1>10, <1>12, <1>13, <1>14, Zenon
  DEF RpcNext

LEMMA RpcInvAlways == RpcSpec => []RpcInv
BY RpcInvInit, RpcInvNext, PTL DEF RpcSpec

\* RpcHandler::request returns the answer to its own request: an answer that
\* comes late, over a connection that was replaced, or after its request gave
\* up, is never taken for another one's, and a request that waits is in the
\* table of pending requests until its answer is there.
THEOREM RequestsGetTheirAnswers == RpcSpec => []AnswersMatch
<1>1. RpcInv => AnswersMatch
  BY Zenon DEF RpcInv, CallOK, AnswersMatch
<1> QED BY <1>1, RpcInvAlways, PTL

\* A request that has returned, timed out in the handler or failed to connect
\* is not in the table of pending requests any more.
THEOREM ReturnedIsNotPending == RpcSpec => []PendingIsOwned
<1>1. RpcInv => PendingIsOwned
  BY Zenon DEF RpcInv, CallOK, PendingIsOwned
<1> QED BY <1>1, RpcInvAlways, PTL
-----------------------------------------------------------------------------
(* The clean marker of a topic *)

MarkRecord == [generation : Nat, flag : BOOLEAN]

MarkTypes ==
  /\ clean \in MarkRecord /\ kept \in MarkRecord /\ file \in MarkRecord
  /\ marker \in [Markers -> [at : {"idle", "count", "store", "send"}, desired : BOOLEAN]]
  /\ saver \in [at : {"idle", "flag", "save"}, record : MarkRecord]
  /\ asks \in Nat /\ markFaults \in Nat

\* A thread has counted its mark and not yet asked the persister to save it, or
\* the persister has not yet taken what it was asked.
Unsaved == (\E t \in Markers : marker[t].at \in {"store", "send"}) \/ asks > 0

\* With nothing left to ask, what the persister has loaded so far is what is in
\* memory: its generation first, then all of it, then the file.
SavedInv ==
  markFaults = 0 /\ ~Unsaved =>
    /\ saver.at = "idle" => file = clean
    /\ saver.at = "flag" => saver.record.generation = clean.generation
    /\ saver.at = "save" => saver.record = clean

\* The record in hand lies between the one in the file and the one in memory.
GenerationInv ==
  /\ file.generation <= clean.generation
  /\ saver.at # "idle" => /\ file.generation <= saver.record.generation
                          /\ saver.record.generation <= clean.generation

MarkInv == MarkTypes /\ SavedInv /\ GenerationInv

LEMMA MarkInvInit == MarkInit => MarkInv
BY DEF MarkInit, MarkInv, MarkTypes, SavedInv, GenerationInv, MarkRecord, NewRecord, NewMarker

LEMMA MarkInvNext == MarkInv /\ [MarkNext]_markVars => MarkInv'
<1> SUFFICES ASSUME MarkInv, [MarkNext]_markVars PROVE MarkInv'
  BY Zenon
<1> USE MarkAssumption DEF MarkInv
<1>1. ASSUME NEW t \in Markers, NEW d \in BOOLEAN, MarkTopic(t, d) PROVE MarkInv'
  <2>1. MarkTypes'
    BY <1>1, Zenon DEF MarkTopic, MarkTypes
  <2>2. Unsaved' <=> Unsaved
    BY <1>1, Zenon DEF MarkTopic, MarkTypes, Unsaved
  <2>3. SavedInv' /\ GenerationInv'
    BY <1>1, <2>2, Zenon DEF MarkTopic, SavedInv, GenerationInv
  <2> QED BY <2>1, <2>3, Zenon
<1>2. ASSUME NEW t \in Markers, CountMark(t) PROVE MarkInv'
  <2>1. clean' = [clean EXCEPT !.generation = clean.generation + 1]
    BY <1>2, Zenon DEF CountMark
  <2>2. clean' \in MarkRecord /\ clean'.generation = clean.generation + 1
    BY <2>1 DEF MarkTypes, MarkRecord
  <2>3. MarkTypes'
    BY <1>2, <2>2 DEF CountMark, MarkTypes
  <2>4. Unsaved'
    BY <1>2, Zenon DEF CountMark, MarkTypes, Unsaved
  <2>5. GenerationInv'
    BY <1>2, <2>2 DEF CountMark, GenerationInv, MarkTypes, MarkRecord
  <2> QED BY <2>3, <2>4, <2>5, Zenon DEF SavedInv
<1>3. ASSUME NEW t \in Markers, StoreMark(t) PROVE MarkInv'
  <2>1. clean' = [clean EXCEPT !.flag = marker[t].desired] /\ marker[t].desired \in BOOLEAN
    BY <1>3, Zenon DEF StoreMark, MarkTypes
  <2>2. clean' \in MarkRecord /\ clean'.generation = clean.generation
    BY <2>1, Zenon DEF MarkTypes, MarkRecord
  <2>3. MarkTypes'
    BY <1>3, <2>2, Zenon DEF StoreMark, MarkTypes
  <2>4. Unsaved'
    BY <1>3, Zenon DEF StoreMark, MarkTypes, Unsaved
  <2>5. GenerationInv'
    BY <1>3, <2>2, Zenon DEF StoreMark, GenerationInv
  <2> QED BY <2>3, <2>4, <2>5, Zenon DEF SavedInv
<1>4. ASSUME NEW t \in Markers, AskToSave(t) PROVE MarkInv'
  <2>1. MarkTypes' /\ Unsaved'
    BY <1>4 DEF AskToSave, MarkTypes, Unsaved
  <2>2. GenerationInv'
    BY <1>4, Zenon DEF AskToSave, GenerationInv
  <2> QED BY <2>1, <2>2, Zenon DEF SavedInv
<1>5. CASE Collect
  <2> DEFINE record == [saver.record EXCEPT !.generation = clean.generation]
  <2>1. record \in MarkRecord /\ record.generation = clean.generation
    BY Zenon DEF MarkTypes, MarkRecord
  <2>2. saver' = [at |-> "flag", record |-> record]
    BY <1>5, Zenon DEF Collect
  <2> HIDE DEF record
  <2>3. MarkTypes'
    BY <1>5, <2>1, <2>2 DEF Collect, MarkTypes
  <2>4. SavedInv'
    BY <1>5, <2>1, <2>2 DEF Collect, SavedInv
  <2>5. GenerationInv'
    BY <1>5, <2>1, <2>2 DEF Collect, GenerationInv, MarkTypes, MarkRecord
  <2> QED BY <2>3, <2>4, <2>5, Zenon
<1>6. CASE LoadFlag
  <2> DEFINE record == [saver.record EXCEPT !.flag = clean.flag]
  <2>1. record \in MarkRecord /\ record.generation = saver.record.generation
        /\ (saver.record.generation = clean.generation => record = clean)
    BY Zenon DEF MarkTypes, MarkRecord
  <2>2. saver' = [at |-> "save", record |-> record]
    BY <1>6, Zenon DEF LoadFlag
  <2> HIDE DEF record
  <2>3. MarkTypes'
    BY <1>6, <2>1, <2>2 DEF LoadFlag, MarkTypes
  <2>4. Unsaved' <=> Unsaved
    BY <1>6, Zenon DEF LoadFlag, Unsaved
  <2>5. SavedInv'
    BY <1>6, <2>1, <2>2, <2>4 DEF LoadFlag, SavedInv
  <2>6. GenerationInv'
    BY <1>6, <2>1, <2>2 DEF LoadFlag, GenerationInv
  <2> QED BY <2>3, <2>5, <2>6, Zenon
<1>7. CASE Persist
  <2>1. MarkTypes'
    BY <1>7 DEF Persist, MarkTypes
  <2>2. Unsaved' <=> Unsaved
    BY <1>7, Zenon DEF Persist, Unsaved
  <2>3. SavedInv'
    BY <1>7, <2>2 DEF Persist, SavedInv, MarkTypes
  <2>4. GenerationInv'
    BY <1>7, Zenon DEF Persist, GenerationInv, MarkTypes
  <2> QED BY <2>1, <2>3, <2>4, Zenon
<1>8. CASE MarkRestart
  <2>1. MarkTypes' /\ markFaults' # 0
    BY <1>8 DEF MarkRestart, MarkTypes, Hydrated, NewMarker, NewRecord, MarkRecord
  <2>2. GenerationInv'
    BY <1>8 DEF MarkRestart, GenerationInv, Hydrated, MarkTypes, MarkRecord
  <2> QED BY <2>1, <2>2, Zenon DEF SavedInv
<1>9. CASE UNCHANGED markVars
  BY <1>9, Zenon DEF markVars, MarkTypes, SavedInv, GenerationInv, Unsaved
<1> QED
  BY <1>1, <1>2, <1>3, <1>4, <1>5, <1>6, <1>7, <1>8, <1>9, Zenon DEF MarkNext

LEMMA MarkInvAlways == MarkSpec => []MarkInv
BY MarkInvInit, MarkInvNext, PTL DEF MarkSpec

\* CleanMarkerStore and its persister: when all threads are through and the
\* persister rests, the file has the marker that is in memory, however their
\* two stores and its two loads fell between each other.
THEOREM QuietMarkerIsSaved == MarkSpec => []QuietIsSaved
<1>1. MarkInv => QuietIsSaved
  BY DEF MarkInv, SavedInv, Unsaved, QuietIsSaved, MarkTypes
<1> QED BY <1>1, MarkInvAlways, PTL

\* Every record the persister writes is at least as new as the one it replaces,
\* over failed writes and restarts.
THEOREM FileGenerationsGrow == MarkSpec => GenerationsGrow
<1>1. MarkInv /\ [MarkNext]_markVars => [file'.generation >= file.generation]_markVars
  <2> SUFFICES ASSUME MarkInv, MarkNext PROVE file'.generation >= file.generation
    BY Zenon
  <2>1. file.generation \in Nat
    BY Zenon DEF MarkInv, MarkTypes, MarkRecord
  <2>2. CASE Persist
    BY <2>1, <2>2 DEF Persist, MarkInv, MarkTypes, GenerationInv, MarkRecord
  <2>3. CASE UNCHANGED file
    BY <2>1, <2>3
  <2> QED
    BY <2>2, <2>3, Zenon
    DEF MarkNext, MarkTopic, CountMark, StoreMark, AskToSave, Collect, LoadFlag, MarkRestart
<1> QED BY <1>1, MarkInvAlways, PTL DEF MarkSpec, GenerationsGrow
-----------------------------------------------------------------------------
(* The transfer of a chunk *)

Kinds == {"memory", "file"}
Marks == Pieces \cup {"sum", "old"}
Sender == [at : {"idle", "data", "ack", "ok", "failed"}, kind : Kinds, size : Nat,
           hashed : Seq(Pieces)]
Receiver == [at : {"accept", "data", "ok", "failed"}, kind : Kinds, size : Nat,
             data : Seq(Marks)]
Tokens == [is : {"size", "data", "sum"}, of : Nat \cup Pieces \cup Seq(Pieces)]

ChunkTypes ==
  /\ source \in Seq(Pieces) /\ snd \in Sender /\ rcv \in Receiver
  /\ stream \in Seq(Tokens) /\ dest \in Seq(Marks)

\* The checksum on the stream is that of what was sent and is not sent before
\* the last of it; the size is the one the sender announced, and is first.
OnStream(i) ==
  /\ stream[i].is = "sum" => stream[i].of = snd.hashed /\ snd.at \notin {"idle", "data"}
  /\ stream[i].is = "size" =>
       i = 1 /\ stream[i].of = snd.size /\ rcv.at \notin {"data", "ok"}
  /\ stream[i].is = "data" => stream[i].of \in Pieces

StreamInv == \A i \in 1..Len(stream) : OnStream(i)

\* What the receiver has: a destination file holds the data as it came, and
\* only a whole chunk with the right checksum is a success.
ReceivedInv ==
  /\ rcv.at = "accept" => rcv.data = <<>>
  /\ snd.at = "idle" => stream = <<>> /\ rcv.at \notin {"data", "ok"}
  /\ rcv.at \in {"data", "ok"} =>
       rcv.size = snd.size /\ (rcv.kind = "file" => dest = rcv.data)
  /\ rcv.at = "ok" =>
       rcv.data = snd.hashed /\ Len(rcv.data) = rcv.size /\ snd.at \notin {"idle", "data"}
  /\ status = "ok" => rcv.at = "ok"
  /\ snd.at = "ok" => status = "ok"

ChunkInv == ChunkTypes /\ StreamInv /\ ReceivedInv

LEMMA ContentsAreSequences == Contents \subseteq Seq(Pieces)
BY ChunkAssumption DEF Contents

LEMMA ChunkInvInit == ChunkInit => ChunkInv
<1> SUFFICES ASSUME ChunkInit PROVE ChunkInv
  BY Zenon
<1>1. source \in Seq(Pieces)
  BY ContentsAreSequences, Zenon DEF ChunkInit
<1>2. stream = <<>> /\ stream \in Seq(Tokens) /\ dest \in Seq(Marks)
  BY DEF ChunkInit, Marks
<1>3. snd \in Sender /\ snd.at = "idle"
  BY DEF ChunkInit, Sender, Kinds
<1>4. rcv \in Receiver /\ rcv.at = "accept" /\ rcv.data = <<>> /\ status = "none"
  BY DEF ChunkInit, Receiver, Kinds
<1> QED BY <1>1, <1>2, <1>3, <1>4 DEF ChunkInv, ChunkTypes, StreamInv, ReceivedInv

\* Appending to the stream: what was there stays where it was.
LEMMA TokenAppended ==
  ASSUME stream \in Seq(Tokens), NEW t \in Tokens, stream' = Append(stream, t)
  PROVE  /\ stream' \in Seq(Tokens) /\ Len(stream') = Len(stream) + 1
         /\ \A i \in 1..Len(stream) : stream'[i] = stream[i]
         /\ stream'[Len(stream) + 1] = t
OBVIOUS

LEMMA TokensJoined ==
  ASSUME NEW s \in Seq(Tokens), NEW t \in Seq(Tokens)
  PROVE  s \o t \in Seq(Tokens) /\ Len(s \o t) = Len(s) + Len(t)
OBVIOUS

\* Taking the first token: the others move up.
LEMMA TokenTaken ==
  ASSUME stream \in Seq(Tokens), stream # <<>>, stream' = Tail(stream)
  PROVE  /\ stream' \in Seq(Tokens) /\ Len(stream') = Len(stream) - 1
         /\ \A i \in 1..Len(stream') : stream'[i] = stream[i + 1] /\ i + 1 \in 1..Len(stream)
         /\ Head(stream) = stream[1] /\ 1 \in 1..Len(stream)
OBVIOUS

LEMMA ChunkInvNext == ChunkInv /\ [ChunkNext]_chunkVars => ChunkInv'
<1> SUFFICES ASSUME ChunkInv, [ChunkNext]_chunkVars PROVE ChunkInv'
  BY Zenon
<1> USE DEF ChunkInv
<1>1. CASE SendSize
  <2>0. Len(source) \in Nat
    BY DEF ChunkTypes
  <2>1. /\ snd' \in Sender /\ snd'.at = "data" /\ snd'.size = Len(source)
        /\ snd'.hashed = snd.hashed
    BY <1>1, <2>0, Zenon DEF SendSize, ChunkTypes, Sender
  <2>2. Token("size", Len(source)) \in Tokens
    BY DEF Token, Tokens, ChunkTypes
  <2>3. stream' = <<Token("size", Len(source))>>
    BY <1>1, Zenon DEF SendSize
  <2>4. ChunkTypes'
    BY <1>1, <2>1, <2>2, <2>3 DEF SendSize, ChunkTypes
  <2>5. StreamInv'
    BY <1>1, <2>1, <2>3 DEF SendSize, StreamInv, OnStream, ReceivedInv, Token
  <2>6. ReceivedInv'
    BY <1>1, <2>1, Zenon DEF SendSize, ReceivedInv
  <2> QED BY <2>4, <2>5, <2>6, Zenon
<1>2. CASE SendMemory
  <2>1. snd' \in Sender /\ snd'.at = "ack" /\ snd'.size = snd.size /\ snd'.hashed = source
    BY <1>2, Zenon DEF SendMemory, ChunkTypes, Sender
  <2>2. /\ Data(source) \in Seq(Tokens) /\ Len(Data(source)) = Len(source)
        /\ \A i \in 1..Len(source) : Data(source)[i].is = "data" /\ Data(source)[i].of \in Pieces
    BY DEF Data, Token, Tokens, ChunkTypes
  <2>3. Sum(source) \in Seq(Tokens) /\ Len(Sum(source)) = 1
        /\ Sum(source)[1].is = "sum" /\ Sum(source)[1].of = source
    BY DEF Sum, Token, Tokens, ChunkTypes
  <2> DEFINE d == Data(source)
             s == Sum(source)
  <2>4. stream' = stream \o d \o s
    BY <1>2, Zenon DEF SendMemory
  <2> HIDE DEF d, s
  <2>5. d \in Seq(Tokens) /\ s \in Seq(Tokens) /\ Len(s) = 1
    BY <2>2, <2>3, Zenon DEF d, s
  <2>0. stream \in Seq(Tokens) /\ Len(stream) \in Nat /\ Len(d) \in Nat
    BY <2>5 DEF ChunkTypes
  <2> DEFINE sd == stream \o d
  <2>00. sd \in Seq(Tokens) /\ Len(sd) = Len(stream) + Len(d) /\ stream' = sd \o s
    BY <2>0, <2>4, <2>5
  <2>6. stream' \in Seq(Tokens) /\ Len(stream') = Len(stream) + Len(d) + 1
    <3> HIDE DEF sd
    <3>1. sd \o s \in Seq(Tokens) /\ Len(sd \o s) = Len(sd) + Len(s)
      BY <2>00, <2>5, TokensJoined, Zenon
    <3> QED BY <2>0, <2>00, <2>5, <3>1, Zenon
  <2>7. ASSUME NEW i \in 1..Len(stream') PROVE OnStream(i)'
    <3>1. CASE i \in 1..Len(stream)
      <4>1. stream'[i] = stream[i]
        BY <2>4, <2>5, <3>1 DEF ChunkTypes
      <4> QED BY <1>2, <2>1, <3>1, <4>1, Zenon DEF SendMemory, StreamInv, OnStream
    <3>2. CASE i \in (Len(stream) + 1)..(Len(stream) + Len(d))
      <4>1. stream'[i] = d[i - Len(stream)] /\ i - Len(stream) \in 1..Len(d)
        BY <2>4, <2>5, <3>2 DEF ChunkTypes
      <4> QED BY <2>2, <4>1, Zenon DEF OnStream, d
    <3>3. CASE i = Len(stream) + Len(d) + 1
      <4>1. stream'[i] = s[1]
        BY <2>4, <2>5, <3>3 DEF ChunkTypes
      <4> QED BY <2>1, <2>3, <4>1, Zenon DEF OnStream, s
    <3> QED BY <2>0, <2>6, <3>1, <3>2, <3>3
  <2>8. ReceivedInv'
    BY <1>2, <2>1, Zenon DEF SendMemory, ReceivedInv
  <2> QED BY <1>2, <2>1, <2>6, <2>7, <2>8, Zenon DEF SendMemory, ChunkTypes, StreamInv
<1>3. CASE SendBuffer
  <2>1. CASE Len(snd.hashed) < Len(source)
    <3> DEFINE piece == source[Len(snd.hashed) + 1]
               sent  == Append(snd.hashed, piece)
    <3>1. piece \in Pieces /\ sent \in Seq(Pieces)
      BY <2>1 DEF ChunkTypes, Sender
    <3>2. stream' = Append(stream, Token("data", piece)) /\ snd' = [snd EXCEPT !.hashed = sent]
      BY <1>3, <2>1, Zenon DEF SendBuffer
    <3> HIDE DEF piece, sent
    <3>3. snd' \in Sender /\ snd'.at = snd.at /\ snd'.size = snd.size
      BY <3>1, <3>2, Zenon DEF ChunkTypes, Sender
    <3>4. Token("data", piece) \in Tokens
      BY <3>1, Zenon DEF Token, Tokens
    <3>5. stream \in Seq(Tokens)
      BY Zenon DEF ChunkTypes
    <3>6. ASSUME NEW i \in 1..Len(stream') PROVE OnStream(i)'
      <4>1. CASE i \in 1..Len(stream)
        BY <1>3, <3>2, <3>3, <3>4, <3>5, <4>1, TokenAppended DEF SendBuffer, StreamInv, OnStream
      <4>2. CASE i = Len(stream) + 1
        BY <3>1, <3>2, <3>4, <3>5, <4>2, TokenAppended DEF OnStream, Token
      <4> QED BY <3>2, <3>4, <3>5, <4>1, <4>2, TokenAppended
    <3>7. ReceivedInv'
      BY <1>3, <3>3, Zenon DEF SendBuffer, ReceivedInv
    <3> QED
      BY <1>3, <3>2, <3>3, <3>4, <3>5, <3>6, <3>7, TokenAppended, Zenon DEF SendBuffer, ChunkTypes, StreamInv
  <2>2. CASE ~(Len(snd.hashed) < Len(source))
    <3>1. stream' = stream \o Sum(snd.hashed) /\ snd' = [snd EXCEPT !.at = "ack"]
      BY <1>3, <2>2, Zenon DEF SendBuffer
    <3>2. snd' \in Sender /\ snd'.at = "ack" /\ snd'.size = snd.size /\ snd'.hashed = snd.hashed
      BY <3>1, Zenon DEF ChunkTypes, Sender
    <3>3. Token("sum", snd.hashed) \in Tokens
      BY Zenon DEF ChunkTypes, Sender, Token, Tokens
    <3>4. stream \in Seq(Tokens)
      BY Zenon DEF ChunkTypes
    <3>5. stream' = Append(stream, Token("sum", snd.hashed))
      BY <3>1, <3>3, <3>4 DEF Sum
    <3>6. ASSUME NEW i \in 1..Len(stream') PROVE OnStream(i)'
      <4>1. CASE i \in 1..Len(stream)
        BY <1>3, <3>2, <3>3, <3>4, <3>5, <4>1, TokenAppended, SMTT(30) DEF SendBuffer, StreamInv, OnStream
      <4>2. CASE i = Len(stream) + 1
        BY <3>2, <3>3, <3>4, <3>5, <4>2, TokenAppended DEF OnStream, Token
      <4> QED BY <3>3, <3>4, <3>5, <4>1, <4>2, TokenAppended
    <3>7. ReceivedInv'
      BY <1>3, <3>2, Zenon DEF SendBuffer, ReceivedInv
    <3> QED
      BY <1>3, <3>2, <3>3, <3>4, <3>5, <3>6, <3>7, TokenAppended, Zenon DEF SendBuffer, ChunkTypes, StreamInv
  <2> QED BY <2>1, <2>2, Zenon
<1>4. CASE SourceChanges
  <2>1. source' \in Seq(Pieces)
    BY <1>4, ContentsAreSequences, Zenon DEF SourceChanges
  <2> QED BY <1>4, <2>1, Zenon DEF SourceChanges, ChunkTypes, StreamInv, OnStream, ReceivedInv
<1>5. CASE ReceiveSize
  <2>1. stream # <<>> /\ stream' = Tail(stream) /\ stream \in Seq(Tokens) /\ Head(stream).is = "size"
    BY <1>5, Zenon DEF ReceiveSize, ChunkTypes
  <2>2. Head(stream).of = snd.size /\ snd.size \in Nat
    BY <2>1, TokenTaken, Zenon DEF StreamInv, OnStream, ChunkTypes, Sender
  <2>3. /\ rcv' \in Receiver /\ rcv'.at = "data" /\ rcv'.size = snd.size
        /\ rcv'.kind = rcv.kind /\ rcv'.data = rcv.data
    BY <1>5, <2>2, Zenon DEF ReceiveSize, ChunkTypes, Receiver
  <2>4. dest' \in Seq(Marks) /\ (rcv.kind = "file" => dest' = <<>>)
    BY <1>5 DEF ReceiveSize, ChunkTypes
  <2>5. snd.at # "idle"
    BY <1>5, <2>1, Zenon DEF ReceiveSize, ReceivedInv
  <2>6. StreamInv'
    BY <1>5, <2>1, <2>3, TokenTaken DEF ReceiveSize, StreamInv, OnStream
  <2>7. ReceivedInv'
    BY <1>5, <2>3, <2>4, <2>5, Zenon DEF ReceiveSize, ReceivedInv
  <2> QED BY <1>5, <2>1, <2>3, <2>4, <2>6, <2>7, TokenTaken, Zenon DEF ReceiveSize, ChunkTypes
<1>6. CASE ReceiveLoopTakes
  BY <1>6 DEF ReceiveLoopTakes, ChunkTypes, StreamInv, OnStream, ReceivedInv
<1>7. ASSUME NEW code \in {"error", "mismatch"}, Refuse(code), rcv.at = "data" PROVE ChunkInv'
  <2>1. rcv' \in Receiver /\ rcv'.at = "failed"
    BY <1>7, Zenon DEF Refuse, ChunkTypes, Receiver
  <2> QED BY <1>7, <2>1, Zenon DEF Refuse, ChunkTypes, StreamInv, OnStream, ReceivedInv
<1>8. CASE ReceiveBuffer /\ stream # <<>> /\ stream' = Tail(stream)
  <2> DEFINE piece == IF Head(stream).is = "data" THEN Head(stream).of ELSE "sum"
             data  == Append(rcv.data, piece)
  <2>1. stream # <<>> /\ stream' = Tail(stream) /\ stream \in Seq(Tokens)
    BY <1>8, Zenon DEF ChunkTypes
  <2>2. piece \in Marks
    BY <2>1, TokenTaken, Zenon DEF StreamInv, OnStream, Marks
  <2>3. data \in Seq(Marks)
    BY <2>2 DEF ChunkTypes, Receiver
  <2>4. rcv' = [rcv EXCEPT !.data = data] /\ dest' = IF rcv.kind = "file" THEN Append(dest, piece) ELSE dest
    BY <1>8, Zenon DEF ReceiveBuffer, Eof
  <2> HIDE DEF piece
  <2>5. dest' \in Seq(Marks)
    BY <2>2, <2>4 DEF ChunkTypes
  <2>6. rcv.kind = "file" => dest' = data
    BY <1>8, <2>4, Zenon DEF ReceiveBuffer, ReceivedInv
  <2> HIDE DEF data
  <2>7. /\ rcv' \in Receiver /\ rcv'.at = rcv.at /\ rcv'.size = rcv.size
        /\ rcv'.kind = rcv.kind /\ rcv'.data = data
    BY <2>3, <2>4, Zenon DEF ChunkTypes, Receiver
  <2>8. UNCHANGED <<source, snd, status>> /\ rcv.at = "data"
    BY <1>8, Zenon DEF ReceiveBuffer, Eof
  <2>9. StreamInv'
    BY <2>1, <2>7, <2>8, TokenTaken DEF StreamInv, OnStream
  <2>10. ReceivedInv'
    BY <2>1, <2>6, <2>7, <2>8, Zenon DEF ReceivedInv
  <2> QED BY <2>1, <2>5, <2>7, <2>8, <2>9, <2>10, TokenTaken, Zenon DEF ChunkTypes
<1>9. CASE ReceiveBuffer
  BY <1>7, <1>8, <1>9, Zenon DEF ReceiveBuffer
<1>10. CASE ReceiveChecksum
  <2>1. CASE Refuse("error") \/ Refuse("mismatch")
    BY <1>7, <1>10, <2>1, Zenon DEF ReceiveChecksum
  <2>2. CASE ~(Refuse("error") \/ Refuse("mismatch"))
    <3>1. /\ stream # <<>> /\ Verified /\ status' = "ok" /\ rcv' = [rcv EXCEPT !.at = "ok"]
          /\ rcv.at = "data" /\ Len(rcv.data) = rcv.size
          /\ UNCHANGED <<source, snd, stream, dest>>
      BY <1>10, <2>2, Zenon DEF ReceiveChecksum
    <3>2. /\ rcv' \in Receiver /\ rcv'.at = "ok" /\ rcv'.size = rcv.size
          /\ rcv'.kind = rcv.kind /\ rcv'.data = rcv.data
      BY <3>1, Zenon DEF ChunkTypes, Receiver
    <3>3. stream \in Seq(Tokens) /\ 1 \in 1..Len(stream) /\ Head(stream) = stream[1]
      BY <3>1 DEF ChunkTypes
    <3>4. rcv.data = snd.hashed /\ snd.at \notin {"idle", "data"}
      BY <3>1, <3>3, Zenon DEF Verified, StreamInv, OnStream
    <3>5. StreamInv'
      BY <3>1, <3>2, Zenon DEF StreamInv, OnStream
    <3>6. ReceivedInv'
      BY <3>1, <3>2, <3>4, Zenon DEF ReceivedInv
    <3> QED BY <3>1, <3>2, <3>5, <3>6, Zenon DEF ChunkTypes
  <2> QED BY <2>1, <2>2, Zenon
<1>11. CASE GetStatus
  <2>1. /\ snd' \in Sender /\ snd'.at = (IF status = "ok" THEN "ok" ELSE "failed")
        /\ snd'.size = snd.size /\ snd'.hashed = snd.hashed
    BY <1>11, Zenon DEF GetStatus, ChunkTypes, Sender
  <2> QED BY <1>11, <2>1 DEF GetStatus, ChunkTypes, StreamInv, OnStream, ReceivedInv
<1>12. CASE ConnectionLost
  BY <1>12, Zenon DEF ConnectionLost, ChunkTypes, StreamInv, OnStream, ReceivedInv
<1>13. CASE EndFails
  <2>1. CASE snd.at \in {"idle", "data", "ack"} /\ snd' = [snd EXCEPT !.at = "failed"] /\ UNCHANGED rcv
    <3>1. snd' \in Sender /\ snd'.at = "failed" /\ snd'.size = snd.size /\ snd'.hashed = snd.hashed
      BY <2>1, Zenon DEF ChunkTypes, Sender
    <3> QED BY <1>13, <2>1, <3>1 DEF EndFails, ChunkTypes, StreamInv, OnStream, ReceivedInv
  <2>2. CASE rcv.at \in {"accept", "data"} /\ rcv' = [rcv EXCEPT !.at = "failed"] /\ UNCHANGED snd
    <3>1. rcv' \in Receiver /\ rcv'.at = "failed"
      BY <2>2, Zenon DEF ChunkTypes, Receiver
    <3> QED BY <1>13, <2>2, <3>1, Zenon DEF EndFails, ChunkTypes, StreamInv, OnStream, ReceivedInv
  <2> QED BY <1>13, <2>1, <2>2, Zenon DEF EndFails
<1>14. CASE UNCHANGED chunkVars
  BY <1>14, Zenon DEF chunkVars, ChunkTypes, StreamInv, OnStream, ReceivedInv
<1> QED
  BY <1>1, <1>2, <1>3, <1>4, <1>5, <1>6, <1>9, <1>10, <1>11, <1>12, <1>13, <1>14, Zenon
  DEF ChunkNext

LEMMA ChunkInvAlways == ChunkSpec => []ChunkInv
BY ChunkInvInit, ChunkInvNext, PTL DEF ChunkSpec

\* send_chunk_verified reports a success only for a chunk that the receiver has
\* whole, of the announced size and with the checksum of what was read, in its
\* file if it receives into one, although a file may change while it is sent
\* and the receive loop may take the stream.
THEOREM SentChunksAreStored == ChunkSpec => []SentIsStored
<1>1. ChunkInv => SentIsStored
  BY Zenon DEF ChunkInv, ReceivedInv, SentIsStored
<1> QED BY <1>1, ChunkInvAlways, PTL

\* receive_chunk_verified reports a success only for what the sender hashed.
THEOREM ReceivedChunksAreWhole == ChunkSpec => []ReceivedIsWhole
<1>1. ChunkInv => ReceivedIsWhole
  BY Zenon DEF ChunkInv, ReceivedInv, ReceivedIsWhole
<1> QED BY <1>1, ChunkInvAlways, PTL

-----------------------------------------------------------------------------
(* The gateway's batches *)

Before == {"new", "permit", "register", "registering", "submit"}
RequestStates == Before \cup {"wait"} \cup Ends

In(q, r) == \E i \in 1..Len(q) : q[i] = r
Once(q) == \A i, j \in 1..Len(q) : q[i] = q[j] => i = j

GatewayTypes ==
  /\ reqs \in [Requests -> RequestStates]
  /\ queue \in Seq(Requests) /\ batch \in Seq(Requests)
  /\ DOMAIN puts \subseteq Requests
  /\ puts \in [DOMAIN puts -> {"none", "ok", "error"}]
  /\ walrus \in [topic : BOOLEAN, log : Seq(Requests)]

\* A transaction is in at most one place of its way into the log, and it gets
\* there only by the PUT that it is answered for.
Placed(r) ==
  /\ In(queue, r) => ~In(batch, r) /\ r \notin DOMAIN puts /\ ~In(walrus.log, r)
  /\ In(batch, r) => r \notin DOMAIN puts /\ ~In(walrus.log, r)
  /\ r \in DOMAIN puts /\ puts[r] = "none" => ~In(walrus.log, r)
  /\ r \in DOMAIN puts /\ puts[r] = "ok" => In(walrus.log, r)
  /\ reqs[r] \in Before =>
       ~In(queue, r) /\ ~In(batch, r) /\ r \notin DOMAIN puts /\ ~In(walrus.log, r)
  /\ reqs[r] = "ok" => In(walrus.log, r)

PlacesInv ==
  /\ Once(queue) /\ Once(batch) /\ Once(walrus.log)
  /\ \A r \in Requests : Placed(r)

\* A generator sends its next transaction when the earlier ones are answered,
\* so that what is acknowledged is in the log before the next one is sent.
SentInOrder ==
  \A r, s \in Requests : r[1] = s[1] /\ r[2] < s[2] /\ reqs[s] # "new" => reqs[r] \in Ends

GatewayInv == GatewayTypes /\ PlacesInv /\ SentInOrder /\ AckedInOrder

LEMMA AppendOnce ==
  ASSUME NEW q \in Seq(Requests), NEW r \in Requests, Once(q), ~In(q, r)
  PROVE  /\ Append(q, r) \in Seq(Requests) /\ Once(Append(q, r))
         /\ \A s \in Requests : In(Append(q, r), s) <=> In(q, s) \/ s = r
<1> DEFINE p == Append(q, r)
<1>1. /\ p \in Seq(Requests) /\ Len(p) = Len(q) + 1 /\ Len(q) \in Nat
      /\ p[Len(q) + 1] = r /\ \A i \in 1..Len(q) : p[i] = q[i]
  OBVIOUS
<1> HIDE DEF p
<1>2. Once(p)
  BY <1>1 DEF Once, In
<1>3. \A s \in Requests : In(p, s) <=> In(q, s) \/ s = r
  BY <1>1 DEF In
<1> QED BY <1>1, <1>2, <1>3, Zenon DEF p

LEMMA TailOnce ==
  ASSUME NEW q \in Seq(Requests), q # <<>>, Once(q)
  PROVE  /\ Tail(q) \in Seq(Requests) /\ Once(Tail(q))
         /\ Head(q) \in Requests /\ In(q, Head(q))
         /\ \A s \in Requests : In(Tail(q), s) <=> In(q, s) /\ s # Head(q)
<1> DEFINE p == Tail(q)
<1>1. /\ p \in Seq(Requests) /\ Len(p) = Len(q) - 1 /\ Len(q) \in Nat /\ Len(q) > 0
      /\ \A i \in 1..Len(p) : p[i] = q[i + 1]
  OBVIOUS
<1>2. Head(q) = q[1] /\ q[1] \in Requests
  OBVIOUS
<1> HIDE DEF p
<1>3. Once(p)
  BY <1>1 DEF Once
<1>4. In(q, q[1])
  BY <1>1 DEF In
<1>5. ASSUME NEW s \in Requests PROVE In(p, s) <=> In(q, s) /\ s # q[1]
  <2>1. ASSUME In(p, s) PROVE In(q, s) /\ s # q[1]
    <3>1. PICK i \in 1..Len(p) : p[i] = s
      BY <2>1, Zenon DEF In
    <3>2. i + 1 \in 1..Len(q) /\ q[i + 1] = s /\ 1 \in 1..Len(q) /\ i + 1 # 1
      BY <1>1, <3>1
    <3> QED BY <3>2, Zenon DEF In, Once
  <2>2. ASSUME In(q, s), s # q[1] PROVE In(p, s)
    <3>1. PICK i \in 1..Len(q) : q[i] = s
      BY <2>2, Zenon DEF In
    <3>2. i - 1 \in 1..Len(p) /\ p[i - 1] = q[i - 1 + 1] /\ i - 1 + 1 = i
      BY <1>1, <2>2, <3>1
    <3> QED BY <3>1, <3>2, Zenon DEF In
  <2> QED BY <2>1, <2>2, Zenon
<1> QED BY <1>1, <1>2, <1>3, <1>4, <1>5, Zenon DEF p

LEMMA NothingIn == Once(<<>>) /\ \A r : ~In(<<>>, r)
BY DEF Once, In

LEMMA NoPuts == DOMAIN <<>> = {} /\ <<>> \in [{} -> {"none", "ok", "error"}]
OBVIOUS

LEMMA GatewayInvInit == GatewayInit => GatewayInv
<1> SUFFICES ASSUME GatewayInit PROVE GatewayInv
  BY Zenon
<1>1. GatewayTypes
  BY NoPuts DEF GatewayInit, GatewayTypes, RequestStates, Before
<1>2. PlacesInv
  BY NothingIn, NoPuts, Zenon DEF GatewayInit, PlacesInv, Placed, Ends
<1>3. SentInOrder
  BY Zenon DEF GatewayInit, SentInOrder
<1>4. AckedInOrder
  BY DEF GatewayInit, AckedInOrder
<1> QED BY <1>1, <1>2, <1>3, <1>4, Zenon DEF GatewayInv

\* Nothing moves on its way into the log, and one request changes its state.
MovesRequest(r, to) ==
  /\ reqs' = [reqs EXCEPT ![r] = to]
  /\ UNCHANGED <<queue, batch, puts>>
  /\ walrus' \in [topic : BOOLEAN, log : Seq(Requests)] /\ walrus'.log = walrus.log

LEMMA RequestMoves ==
  ASSUME GatewayInv, NEW r \in Requests, NEW to \in RequestStates, MovesRequest(r, to),
         to \notin {"ok", "new"}, to \in Before => reqs[r] \in Before, reqs[r] \notin Ends,
         \A a \in Requests : reqs[r] = "new" /\ a[1] = r[1] /\ a[2] < r[2] => reqs[a] \in Ends
  PROVE  GatewayInv'
<1>1. reqs' \in [Requests -> RequestStates] /\ \A s \in Requests : reqs'[s] = IF s = r THEN to ELSE reqs[s]
  BY Zenon DEF GatewayInv, GatewayTypes, MovesRequest
<1>2. GatewayTypes'
  BY <1>1, SMTT(30) DEF GatewayInv, GatewayTypes, MovesRequest
<1>3. ASSUME NEW s \in Requests PROVE Placed(s)'
  <2>1. Placed(s)
    BY Zenon DEF GatewayInv, PlacesInv
  <2> QED BY <1>1, <2>1, Zenon DEF Placed, MovesRequest
<1>4. PlacesInv'
  BY <1>3, Zenon DEF GatewayInv, PlacesInv, MovesRequest
<1>5. SentInOrder'
  <2> SUFFICES ASSUME NEW a \in Requests, NEW b \in Requests, a[1] = b[1], a[2] < b[2],
                      reqs'[b] # "new"
               PROVE  reqs'[a] \in Ends
    BY Zenon DEF SentInOrder
  <2>1. a[2] \in Int /\ b[2] \in Int /\ a # b
    BY DEF Requests
  <2>2. CASE a = r
    BY <1>1, <2>1, <2>2, Zenon DEF GatewayInv, SentInOrder
  <2>3. CASE a # r
    BY <1>1, <2>1, <2>3, Zenon DEF GatewayInv, SentInOrder
  <2> QED BY <2>2, <2>3, Zenon
<1>6. AckedInOrder'
  <2>1. walrus.log \in Seq(Requests)
    BY Zenon DEF GatewayInv, GatewayTypes
  <2> QED BY <1>1, <2>1 DEF GatewayInv, AckedInOrder, MovesRequest
<1> QED BY <1>2, <1>4, <1>5, <1>6, Zenon DEF GatewayInv

LEMMA EarlierAreAnswered ==
  ASSUME GatewayInv, NEW r \in Requests, SendRawTransaction(r), NEW a \in Requests,
         a[1] = r[1], a[2] < r[2]
  PROVE  reqs[a] \in Ends
<1> DEFINE before == <<r[1], r[2] - 1>>
<1>1. r[2] \in 1..Count /\ a[2] \in 1..Count /\ r[1] \in Generators /\ a = <<a[1], a[2]>>
  BY DEF Requests
<1>2. before \in Requests /\ before[1] = r[1] /\ before[2] = r[2] - 1 /\ r[2] > 1
  BY <1>1, GatewayAssumption DEF Requests
<1>3. reqs[before] \in Ends /\ reqs[before] # "new"
  BY <1>2, Zenon DEF SendRawTransaction, Ends
<1> HIDE DEF before
<1>4. CASE a[2] = r[2] - 1
  BY <1>1, <1>3, <1>4, Zenon DEF before
<1>5. CASE a[2] < r[2] - 1
  BY <1>2, <1>3, <1>5, Zenon DEF GatewayInv, SentInOrder
<1> QED BY <1>1, <1>4, <1>5

LEMMA HandlerKeeps ==
  ASSUME GatewayInv, NEW r \in Requests,
         \/ SendRawTransaction(r) \/ Acquire(r) \/ EnsureTopicRegistered(r) \/ Registered(r)
         \/ RequestExpires(r)
  PROVE  GatewayInv'
<1> USE DEF RequestStates, Before, Ends
<1>0. walrus \in [topic : BOOLEAN, log : Seq(Requests)]
  BY SMTT(30) DEF GatewayInv, GatewayTypes
<1>1. CASE SendRawTransaction(r)
  <2>1. MovesRequest(r, "permit")
    BY <1>0, <1>1, SMTT(30) DEF SendRawTransaction, MovesRequest
  <2>2. reqs[r] = "new"
    BY <1>1, Zenon DEF SendRawTransaction
  <2>3. \A a \in Requests : a[1] = r[1] /\ a[2] < r[2] => reqs[a] \in Ends
    BY <1>1, EarlierAreAnswered, Zenon
  <2> QED BY <2>1, <2>2, <2>3, RequestMoves, Zenon
<1>2. CASE Acquire(r)
  <2>1. MovesRequest(r, "register") /\ reqs[r] = "permit"
    BY <1>0, <1>2, Zenon DEF Acquire, MovesRequest
  <2> QED BY <2>1, RequestMoves, Zenon
<1>3. CASE EnsureTopicRegistered(r)
  <2>1. (MovesRequest(r, "submit") \/ MovesRequest(r, "registering")) /\ reqs[r] = "register"
    BY <1>0, <1>3, Zenon DEF EnsureTopicRegistered, MovesRequest
  <2> QED BY <2>1, RequestMoves, Zenon
<1>4. CASE Registered(r)
  <2>1. \E done \in BOOLEAN : walrus' = [walrus EXCEPT !.topic = walrus.topic \/ done]
    BY <1>4, <1>0, Zenon DEF Registered
  <2>2. walrus' \in [topic : BOOLEAN, log : Seq(Requests)] /\ walrus'.log = walrus.log
    BY <1>0, <2>1, Zenon
  <2>3. (MovesRequest(r, "submit") \/ MovesRequest(r, "error")) /\ reqs[r] = "registering"
    BY <1>4, <2>2, SMTT(30) DEF Registered, End, MovesRequest
  <2> QED BY <2>3, RequestMoves, Zenon
<1>5. CASE RequestExpires(r)
  <2>1. MovesRequest(r, "timeout") /\ reqs[r] \in {"register", "registering", "submit", "wait"}
    BY <1>0, <1>5, Zenon DEF RequestExpires, InTime, End, MovesRequest
  <2> QED BY <2>1, RequestMoves, Zenon
<1> QED BY <1>1, <1>2, <1>3, <1>4, <1>5, Zenon

LEMMA SubmitKeeps ==
  ASSUME GatewayInv, NEW r \in Requests, SubmitTx(r)
  PROVE  GatewayInv'
<1> USE DEF RequestStates, Before, Ends
<1>1. reqs' \in [Requests -> RequestStates]
      /\ \A s \in Requests : reqs'[s] = IF s = r THEN "wait" ELSE reqs[s]
  BY Zenon DEF GatewayInv, GatewayTypes, SubmitTx
<1>2. reqs[r] = "submit" /\ queue' = Append(queue, r) /\ UNCHANGED <<batch, puts, walrus>>
  BY Zenon DEF SubmitTx
<1>3. queue \in Seq(Requests) /\ Once(queue) /\ ~In(queue, r)
  BY <1>2, Zenon DEF GatewayInv, GatewayTypes, PlacesInv, Placed
<1>4. /\ queue' \in Seq(Requests) /\ Once(queue')
      /\ \A s \in Requests : In(queue', s) <=> In(queue, s) \/ s = r
  BY <1>2, <1>3, AppendOnce, Zenon
<1>5. GatewayTypes'
  BY <1>1, <1>2, <1>4, Zenon DEF GatewayInv, GatewayTypes
<1>6. ASSUME NEW s \in Requests PROVE Placed(s)'
  <2>1. Placed(s)
    BY Zenon DEF GatewayInv, PlacesInv
  <2> QED BY <1>1, <1>2, <1>4, <2>1, Zenon DEF Placed
<1>7. SentInOrder'
  BY <1>1, <1>2, Zenon DEF GatewayInv, SentInOrder
<1>8. AckedInOrder'
  <2>1. walrus.log \in Seq(Requests)
    BY SMTT(30) DEF GatewayInv, GatewayTypes
  <2> QED BY <1>1, <1>2, <2>1 DEF GatewayInv, AckedInOrder
<1> QED BY <1>2, <1>4, <1>5, <1>6, <1>7, <1>8, Zenon DEF GatewayInv, PlacesInv

\* The tasks of a batch that is started are the ones that are written.
LEMMA StartKeeps ==
  ASSUME GatewayInv, ~Writing, NEW tasks \in Seq(Requests), StartBatch(tasks),
         queue' \in Seq(Requests), Once(queue'), UNCHANGED <<reqs, walrus>>,
         \A s \in Requests : In(queue', s) => In(queue, s) /\ ~In(tasks, s),
         \A s \in Requests : In(tasks, s) => In(batch, s) \/ In(queue, s)
  PROVE  GatewayInv'
<1>1. \A s \in Requests : In(tasks, s) <=> s \in Range(tasks)
  <2>1. DOMAIN tasks = 1..Len(tasks)
    OBVIOUS
  <2> QED BY <2>1, Zenon DEF In, Range
<1>2. Range(tasks) \subseteq Requests
  <2>1. \A i \in DOMAIN tasks : tasks[i] \in Requests
    OBVIOUS
  <2> QED BY <2>1, Zenon DEF Range
<1>3. /\ DOMAIN puts' = Range(tasks) /\ \A s \in Range(tasks) : puts'[s] = "none"
      /\ puts' \in [Range(tasks) -> {"none", "ok", "error"}] /\ batch' = <<>>
  BY Zenon DEF StartBatch
<1>4. GatewayTypes'
  BY <1>2, <1>3 DEF GatewayInv, GatewayTypes
<1>5. ASSUME NEW s \in Requests PROVE Placed(s)'
  <2>1. Placed(s) /\ ~In(batch', s)
    BY <1>3, NothingIn, Zenon DEF GatewayInv, PlacesInv
  <2>2. In(queue', s) => In(queue, s) /\ s \notin DOMAIN puts'
    BY <1>1, <1>3, Zenon
  <2>3. s \in DOMAIN puts' => puts'[s] = "none" /\ (In(batch, s) \/ In(queue, s))
    BY <1>1, <1>3, Zenon
  <2> QED BY <2>1, <2>2, <2>3, Zenon DEF Placed
<1>6. PlacesInv'
  BY <1>3, <1>5, NothingIn, Zenon DEF GatewayInv, PlacesInv
<1> QED BY <1>4, <1>6, Zenon DEF GatewayInv, SentInOrder, AckedInOrder

LEMMA TicksKeep ==
  ASSUME GatewayInv, IntervalTick
  PROVE  GatewayInv'
<1>1. /\ ~Writing /\ batch \in Seq(Requests) /\ StartBatch(batch) /\ queue' = queue
      /\ queue \in Seq(Requests) /\ Once(queue) /\ UNCHANGED <<reqs, walrus>>
  BY SMTT(30) DEF IntervalTick, GatewayInv, GatewayTypes, PlacesInv
<1>2. \A s \in Requests : In(queue, s) => ~In(batch, s)
  BY Zenon DEF GatewayInv, PlacesInv, Placed
<1> QED BY <1>1, <1>2, StartKeeps, Zenon

LEMMA ReceiveKeeps ==
  ASSUME GatewayInv, ReceiveTask
  PROVE  GatewayInv'
<1> DEFINE r == Head(queue)
           tasks == Append(batch, r)
<1>1. /\ queue \in Seq(Requests) /\ batch \in Seq(Requests) /\ Once(queue) /\ Once(batch)
      /\ queue # <<>> /\ queue' = Tail(queue) /\ ~Writing /\ UNCHANGED <<reqs, walrus>>
  BY Zenon DEF ReceiveTask, GatewayInv, GatewayTypes, PlacesInv
<1>2. /\ queue' \in Seq(Requests) /\ Once(queue') /\ r \in Requests /\ In(queue, r)
      /\ \A s \in Requests : In(queue', s) <=> In(queue, s) /\ s # r
  BY <1>1, TailOnce, Zenon
<1>3. (StartBatch(tasks) \/ (batch' = tasks /\ UNCHANGED puts))
  BY Zenon DEF ReceiveTask
<1> HIDE DEF r
<1>4. ~In(batch, r)
  BY <1>2, Zenon DEF GatewayInv, PlacesInv, Placed
<1>5. /\ tasks \in Seq(Requests) /\ Once(tasks)
      /\ \A s \in Requests : In(tasks, s) <=> In(batch, s) \/ s = r
  BY <1>1, <1>2, <1>4, AppendOnce, SMTT(30)
<1> HIDE DEF tasks
<1>6. \A s \in Requests : In(queue', s) => In(queue, s) /\ ~In(tasks, s)
  BY <1>2, <1>5, Zenon DEF GatewayInv, PlacesInv, Placed
<1>7. CASE StartBatch(tasks)
  BY <1>1, <1>2, <1>5, <1>6, <1>7, StartKeeps, Zenon
<1>8. CASE batch' = tasks /\ UNCHANGED puts
  <2>1. GatewayTypes'
    BY <1>1, <1>2, <1>5, <1>8, Zenon DEF GatewayInv, GatewayTypes
  <2>2. ASSUME NEW s \in Requests PROVE Placed(s)'
    <3>1. Placed(s) /\ Placed(r)
      BY <1>2, SMTT(30) DEF GatewayInv, PlacesInv
    <3> QED BY <1>1, <1>2, <1>5, <1>6, <1>8, <3>1, Zenon DEF Placed
  <2>3. PlacesInv'
    BY <1>1, <1>2, <1>5, <1>8, <2>2, Zenon DEF GatewayInv, PlacesInv
  <2> QED BY <1>1, <2>1, <2>3, Zenon DEF GatewayInv, SentInOrder, AckedInOrder
<1> QED BY <1>3, <1>7, <1>8, Zenon

LEMMA PutKeeps ==
  ASSUME GatewayInv, NEW r \in Requests, Put(r)
  PROVE  GatewayInv'
<1> DEFINE log == Append(walrus.log, r)
<1>1. /\ r \in DOMAIN puts /\ puts[r] = "none" /\ UNCHANGED <<reqs, queue, batch>>
      /\ \/ walrus' = [walrus EXCEPT !.log = log] /\ puts' = [puts EXCEPT ![r] = "ok"]
         \/ walrus' = [walrus EXCEPT !.log = log] /\ puts' = [puts EXCEPT ![r] = "error"]
         \/ walrus' = walrus /\ puts' = [puts EXCEPT ![r] = "error"]
  BY Zenon DEF Put
<1>2. walrus.log \in Seq(Requests) /\ Once(walrus.log) /\ ~In(walrus.log, r)
  BY <1>1, Zenon DEF GatewayInv, GatewayTypes, PlacesInv, Placed
<1>3. /\ log \in Seq(Requests) /\ Once(log)
      /\ \A s \in Requests : In(log, s) <=> In(walrus.log, s) \/ s = r
  BY <1>2, AppendOnce, Zenon
<1>4. /\ Len(walrus.log) \in Nat /\ Len(log) = Len(walrus.log) + 1 /\ log[Len(log)] = r
      /\ \A i \in 1..Len(walrus.log) : log[i] = walrus.log[i]
  BY <1>2
<1> HIDE DEF log
<1>5. walrus \in [topic : BOOLEAN, log : Seq(Requests)]
  BY Zenon DEF GatewayInv, GatewayTypes
<1>6. /\ walrus' \in [topic : BOOLEAN, log : Seq(Requests)] /\ walrus'.log \in {walrus.log, log}
      /\ (walrus'.log = walrus.log => puts' = [puts EXCEPT ![r] = "error"])
  BY <1>1, <1>3, <1>4, <1>5
<1>7. /\ DOMAIN puts' = DOMAIN puts /\ puts' \in [DOMAIN puts -> {"none", "ok", "error"}]
      /\ puts'[r] \in {"ok", "error"} /\ \A s \in DOMAIN puts : s # r => puts'[s] = puts[s]
      /\ (walrus'.log = walrus.log => puts'[r] = "error")
  BY <1>1, <1>6, Zenon DEF GatewayInv, GatewayTypes
<1>8. GatewayTypes'
  BY <1>1, <1>6, <1>7, Zenon DEF GatewayInv, GatewayTypes
<1>9. ASSUME NEW s \in Requests PROVE Placed(s)'
  <2>1. Placed(s) /\ Placed(r)
    BY Zenon DEF GatewayInv, PlacesInv
  <2>2. CASE s = r
    BY <1>1, <1>3, <1>6, <1>7, <2>1, <2>2, Zenon DEF Placed
  <2>3. CASE s # r
    BY <1>1, <1>3, <1>6, <1>7, <2>1, <2>3, Zenon DEF Placed
  <2> QED BY <2>2, <2>3, Zenon
<1>10. PlacesInv'
  BY <1>1, <1>2, <1>3, <1>6, <1>9 DEF GatewayInv, PlacesInv
<1>11. AckedInOrder'
  <2>1. CASE walrus'.log = walrus.log
    BY <1>1, <2>1, Zenon DEF GatewayInv, AckedInOrder
  <2>2. CASE walrus'.log = log
    <3> SUFFICES ASSUME NEW i \in 1..Len(log), NEW j \in 1..Len(log),
                        log[i][1] = log[j][1], log[i][2] < log[j][2], reqs[log[i]] = "ok"
                 PROVE  i < j
      BY <1>1, <1>3, <2>2, SMTT(30) DEF AckedInOrder
    <3>1. log[i] # r /\ i \in 1..Len(walrus.log)
      BY <1>2, <1>4 DEF GatewayInv, PlacesInv, Placed
    <3>2. CASE j \in 1..Len(walrus.log)
      <4>1. log[i] = walrus.log[i] /\ log[j] = walrus.log[j] /\ DOMAIN walrus.log = 1..Len(walrus.log)
        BY <1>2, <1>4, <3>1, <3>2
      <4> QED BY <3>1, <3>2, <4>1, Zenon DEF GatewayInv, AckedInOrder
    <3>3. CASE j = Len(log)
      BY <1>4, <3>1, <3>3
    <3> QED BY <1>4, <3>2, <3>3
  <2> QED BY <1>6, <2>1, <2>2, Zenon
<1> QED BY <1>1, <1>8, <1>10, <1>11, Zenon DEF GatewayInv, SentInOrder

LEMMA FinishKeeps ==
  ASSUME GatewayInv, FinishBatch
  PROVE  GatewayInv'
<1> USE DEF RequestStates, Before, Ends
<1>1. /\ \A r \in DOMAIN puts : puts[r] \in {"ok", "error"}
      /\ puts' = <<>> /\ UNCHANGED <<queue, batch, walrus>> /\ DOMAIN puts \subseteq Requests
  BY Zenon DEF FinishBatch, GatewayInv, GatewayTypes
<1>2. reqs' = [r \in Requests |->
                 IF r \in DOMAIN puts /\ reqs[r] = "wait" THEN puts[r] ELSE reqs[r]]
  BY <1>1, Zenon DEF FinishBatch, Result
<1>3. reqs' \in [Requests -> RequestStates]
  BY <1>1, <1>2, Zenon DEF GatewayInv, GatewayTypes
<1>4. DOMAIN puts' = {} /\ puts' \in [{} -> {"none", "ok", "error"}]
  BY <1>1, NoPuts, Zenon
<1>5. GatewayTypes'
  BY <1>1, <1>3, <1>4, Zenon DEF GatewayInv, GatewayTypes
<1>6. ASSUME NEW s \in Requests PROVE Placed(s)'
  <2>1. Placed(s)
    BY Zenon DEF GatewayInv, PlacesInv
  <2> QED BY <1>1, <1>2, <1>4, <2>1, Zenon DEF Placed
<1>7. PlacesInv'
  BY <1>1, <1>6, Zenon DEF GatewayInv, PlacesInv
<1>8. SentInOrder'
  BY <1>1, <1>2, SMTT(30) DEF GatewayInv, SentInOrder
<1>9. AckedInOrder'
  <2> SUFFICES ASSUME NEW i \in DOMAIN walrus.log, NEW j \in DOMAIN walrus.log,
                      walrus.log[i][1] = walrus.log[j][1], walrus.log[i][2] < walrus.log[j][2],
                      reqs'[walrus.log[i]] = "ok"
               PROVE  i < j
    BY <1>1, Zenon DEF AckedInOrder
  <2> DEFINE r == walrus.log[i]
             s == walrus.log[j]
  <2>1. walrus.log \in Seq(Requests)
    BY Zenon DEF GatewayInv, GatewayTypes
  <2>2. r \in Requests /\ s \in Requests /\ In(walrus.log, s)
    BY <2>1, SMTT(30) DEF In
  <2>3. reqs[s] # "new"
    BY <2>2, SMTT(30) DEF GatewayInv, PlacesInv, Placed
  <2>4. reqs[r] \in Ends
    BY <2>2, <2>3, SMTT(30) DEF GatewayInv, SentInOrder
  <2>5. reqs[r] = "ok"
    BY <1>2, <2>2, <2>4, Zenon
  <2> QED BY <2>5, Zenon DEF GatewayInv, AckedInOrder
<1> QED BY <1>5, <1>7, <1>8, <1>9, Zenon DEF GatewayInv

LEMMA RestartKeeps ==
  ASSUME GatewayInv, GatewayRestart
  PROVE  GatewayInv'
<1> USE DEF RequestStates, Before, Ends
<1>1. reqs' = [r \in Requests |-> IF reqs[r] \in Ends \cup {"new"} THEN reqs[r] ELSE "lost"]
      /\ queue' = <<>> /\ batch' = <<>> /\ puts' = <<>> /\ walrus' = walrus
  BY Zenon DEF GatewayRestart
<1>2. reqs' \in [Requests -> RequestStates] /\ DOMAIN puts' = {}
      /\ puts' \in [{} -> {"none", "ok", "error"}]
  BY <1>1, NoPuts, Zenon DEF GatewayInv, GatewayTypes
<1>3. GatewayTypes'
  BY <1>1, <1>2, SMTT(30) DEF GatewayInv, GatewayTypes
<1>4. ASSUME NEW s \in Requests PROVE Placed(s)'
  <2>1. Placed(s) /\ ~In(queue', s) /\ ~In(batch', s)
    BY <1>1, NothingIn, Zenon DEF GatewayInv, PlacesInv
  <2> QED BY <1>1, <1>2, <2>1, SMTT(30) DEF Placed
<1>5. PlacesInv'
  BY <1>1, <1>4, NothingIn, Zenon DEF GatewayInv, PlacesInv
<1>6. SentInOrder'
  BY <1>1, SMTT(30) DEF GatewayInv, SentInOrder
<1>7. AckedInOrder'
  <2>1. walrus.log \in Seq(Requests)
    BY Zenon DEF GatewayInv, GatewayTypes
  <2> QED BY <1>1, <2>1 DEF GatewayInv, AckedInOrder
<1> QED BY <1>3, <1>5, <1>6, <1>7, Zenon DEF GatewayInv

LEMMA GatewayInvNext == GatewayInv /\ [GatewayNext]_gatewayVars => GatewayInv'
<1> SUFFICES ASSUME GatewayInv, [GatewayNext]_gatewayVars PROVE GatewayInv'
  BY Zenon
<1>1. ASSUME NEW r \in Requests, Handler(r) PROVE GatewayInv'
  BY <1>1, HandlerKeeps, SubmitKeeps, Zenon DEF Handler
<1>2. CASE UNCHANGED gatewayVars
  <2>1. GatewayTypes' /\ SentInOrder' /\ AckedInOrder'
    BY <1>2, Zenon DEF gatewayVars, GatewayInv, GatewayTypes, SentInOrder, AckedInOrder
  <2>2. PlacesInv'
    BY <1>2, Zenon DEF gatewayVars, GatewayInv, PlacesInv, Placed
  <2> QED BY <2>1, <2>2, Zenon DEF GatewayInv
<1> QED
  BY <1>1, <1>2, HandlerKeeps, PutKeeps, ReceiveKeeps, TicksKeep, FinishKeeps, RestartKeeps, Zenon
  DEF GatewayNext

LEMMA GatewayInvAlways == GatewaySpec => []GatewayInv
BY GatewayInvInit, GatewayInvNext, PTL DEF GatewaySpec

\* A transaction that the gateway acknowledges is in the log, and none is there
\* twice: over timeouts, lost answers of a PUT and restarts of the gateway, one
\* submission is one PUT.
THEOREM AckedTransactionsAreWritten == GatewaySpec => []AckedIsWritten
<1>1. GatewayInv => AckedIsWritten
  <2> SUFFICES ASSUME GatewayInv PROVE AckedIsWritten
    BY Zenon
  <2>1. walrus.log \in Seq(Requests) /\ DOMAIN walrus.log = 1..Len(walrus.log)
    BY DEF GatewayInv, GatewayTypes
  <2>2. IsInjective(walrus.log)
    BY <2>1, Zenon DEF GatewayInv, PlacesInv, Once, IsInjective
  <2>3. ASSUME NEW r \in Requests, reqs[r] = "ok" PROVE r \in Range(walrus.log)
    <3>1. In(walrus.log, r)
      BY <2>3, Zenon DEF GatewayInv, PlacesInv, Placed
    <3> QED BY <2>1, <3>1, SMTT(30) DEF In, Range
  <2> QED BY <2>2, <2>3, Zenon DEF AckedIsWritten
<1> QED BY <1>1, GatewayInvAlways, PTL

\* The acknowledged transactions of a generator are in the log in the order in
\* which it sent them, although the PUTs of a batch run concurrently.
THEOREM AckedTransactionsAreInOrder == GatewaySpec => []AckedInOrder
<1>1. GatewayInv => AckedInOrder
  BY Zenon DEF GatewayInv
<1> QED BY <1>1, GatewayInvAlways, PTL
=============================================================================
