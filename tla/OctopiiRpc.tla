---------------------------- MODULE OctopiiRpc ----------------------------
(***************************************************************************)
(* Requests of one octopii node to a peer (octopii rpc/handler.rs,         *)
(* transport/mod.rs, transport/peer.rs, openraft/network.rs): a cache with *)
(* one connection per address, a receive task per address for the answers, *)
(* and a table of pending requests.  A caller can time out and be dropped  *)
(* at any await (openraft gives a request less time than the handler       *)
(* does), the peer can restart, and a connection that nobody uses is       *)
(* closed by QUIC some time.                                               *)
(***************************************************************************)
EXTENDS Integers, FiniteSets

CONSTANTS Calls,     \* requests, each with the id that next_id gives it
          MaxLinks,  \* bound on connections
          MaxBreaks  \* bound on restarts of the peer and slow sends

ASSUME RpcAssumption ==
  IsFiniteSet(Calls) /\ "none" \notin Calls /\ MaxLinks \in Nat /\ MaxBreaks \in Nat

VARIABLES links,     \* connections: open as this node sees it, and up in fact
          cached,    \* QuicTransport.peers of the address, 0 for none
          receiver,  \* peer_receivers, and the connection of the receive task
          calls,     \* where each request stands
          pending,   \* pending_requests
          asked,     \* requests that the peer's tasks work on, with their connection
          answers,   \* answers that the peer sent, with their connection
          breaks     \* faults so far

rpcVars == <<links, cached, receiver, calls, pending, asked, answers, breaks>>

Links == 1..MaxLinks

\* PeerConnection::is_closed, as the cache asks it.
Usable(c) == c # 0 /\ links[c].open

Call(r, at, c) == calls' = [calls EXCEPT ![r] = [@ EXCEPT !.at = at, !.link = c]]

\* RpcHandler::request registers the request, then QuicTransport::connect
\* takes the cached connection or starts a handshake.
StartRequest(r) ==
  /\ calls[r].at = "new"
  /\ pending' = pending \cup {r}
  /\ IF Usable(cached) THEN Call(r, "ensure", cached) ELSE Call(r, "handshake", 0)
  /\ UNCHANGED <<links, cached, receiver, asked, answers, breaks>>

\* The handshake is done outside of the lock: another task may have been
\* faster, and the new connection is dropped.
HandshakeDone(r) ==
  /\ calls[r].at = "handshake"
  /\ IF Usable(cached)
     THEN Call(r, "ensure", cached) /\ UNCHANGED <<links, cached>>
     ELSE \E c \in Links :
            /\ ~links[c].made /\ \A d \in 1..(c - 1) : links[d].made
            /\ links' = [links EXCEPT ![c] = [made |-> TRUE, open |-> TRUE, up |-> TRUE]]
            /\ cached' = c
            /\ Call(r, "ensure", c)
  /\ UNCHANGED <<receiver, pending, asked, answers, breaks>>

\* connect fails: the request is taken back.
HandshakeFails(r) ==
  /\ calls[r].at = "handshake" /\ breaks < MaxBreaks
  /\ breaks' = breaks + 1
  /\ pending' = pending \ {r}
  /\ Call(r, "refused", 0)
  /\ UNCHANGED <<links, cached, receiver, asked, answers>>

\* RpcHandler::ensure_peer_receiver: one receive task per address, on the
\* connection of the request that finds none.
EnsureReceiver(r) ==
  /\ calls[r].at = "ensure"
  /\ receiver' = IF receiver.listed THEN receiver
                 ELSE [listed |-> TRUE, link |-> calls[r].link]
  /\ Call(r, "send", calls[r].link)
  /\ UNCHANGED <<links, cached, pending, asked, answers, breaks>>

Asks(r) == [call |-> r, link |-> calls[r].link]

\* PeerConnection::send returns when the peer's receive loop has acknowledged
\* the message.
Sent(r) ==
  /\ calls[r].at = "send" /\ links[calls[r].link].up
  /\ asked' = asked \cup {Asks(r)}
  /\ Call(r, "wait", calls[r].link)
  /\ UNCHANGED <<links, cached, receiver, pending, answers, breaks>>

\* RpcHandler::handle_request runs in a task of its own at the peer, and
\* answers on the connection that the request came from.
PeerAnswers ==
  \E a \in asked :
    /\ links[a.link].up
    /\ asked' = asked \ {a} /\ answers' = answers \cup {a}
    /\ UNCHANGED <<links, cached, receiver, calls, pending, breaks>>

\* The send fails or takes too long, whether the peer got it or not: the
\* address is dropped from the cache (invalidate_peer).
SendFails(r) ==
  /\ calls[r].at = "send" /\ (~links[calls[r].link].up \/ breaks < MaxBreaks)
  /\ breaks' = IF links[calls[r].link].up THEN breaks + 1 ELSE breaks
  /\ asked' \in {asked} \cup {a \in {asked \cup {Asks(r)}} : links[calls[r].link].up}
  /\ cached' = 0
  /\ Call(r, "unsent", 0)
  /\ UNCHANGED <<links, receiver, pending, answers>>

\* Faulty: an answer is taken for any request that waits.
BadTakes(r, id) == calls[r].at \in {"send", "wait"}

\* The request that an answer is for (handle_response).
Takes(r, id) == r = id

\* The receive task gets an answer and completes the request that waits for it.
ReceiveAnswer ==
  \E a \in answers :
    /\ receiver.link = a.link /\ links[a.link].open /\ links[a.link].up
    /\ answers' = answers \ {a}
    /\ \E r \in Calls :
         /\ Takes(r, a.call)
         /\ pending' = pending \ {r}
         /\ calls' = IF r \in pending THEN [calls EXCEPT ![r].answer = a.call] ELSE calls
    /\ UNCHANGED <<links, cached, receiver, asked, breaks>>

\* The request returns its answer.
Return(r) ==
  /\ calls[r].at = "wait" /\ calls[r].answer # "none"
  /\ Call(r, "done", 0)
  /\ UNCHANGED <<links, cached, receiver, pending, asked, answers, breaks>>

\* The timeout's cleanup.
Forgotten(r) == pending \ {r}

RequestTimeout(r) ==
  /\ calls[r].at = "wait" /\ calls[r].answer = "none"
  /\ pending' = Forgotten(r)
  /\ Call(r, "timeout", 0)
  /\ UNCHANGED <<links, cached, receiver, asked, answers, breaks>>

\* The caller's own timeout (C::timeout of a heartbeat interval) drops the
\* request at an await: nothing of the request's own cleanup runs.
CallerGivesUp(r) ==
  /\ calls[r].at \in {"handshake", "send", "wait"}
  /\ Call(r, "dropped", 0)
  /\ UNCHANGED <<links, cached, receiver, pending, asked, answers, breaks>>

\* The task takes its address off the list.
Unlisted == [listed |-> FALSE, link |-> 0]

\* PeerConnection::recv fails on a closed connection: the loop ends, and the
\* address is taken off the list in a step of its own.
ReceiverStops ==
  /\ receiver.link # 0 /\ ~links[receiver.link].open
  /\ receiver' = [receiver EXCEPT !.link = 0]
  /\ UNCHANGED <<links, cached, calls, pending, asked, answers, breaks>>

ReceiverUnlisted ==
  /\ receiver.listed /\ receiver.link = 0
  /\ receiver' = Unlisted
  /\ UNCHANGED <<links, cached, calls, pending, asked, answers, breaks>>

\* The peer restarts: its connections are gone, which this node does not see.
PeerRestarts ==
  /\ breaks < MaxBreaks /\ \E c \in Links : links[c].up
  /\ breaks' = breaks + 1
  /\ links' = [c \in Links |-> [links[c] EXCEPT !.up = FALSE]]
  /\ asked' = {}
  /\ UNCHANGED <<cached, receiver, calls, pending, answers>>

InUse(c) == \E r \in Calls : calls[r].link = c

\* A connection is closed after a time without traffic, at the latest when it
\* is not up any more.
IdleTimeout(c) ==
  /\ links[c].open /\ ~InUse(c) /\ (~links[c].up \/ cached # c)
  /\ links' = [links EXCEPT ![c].open = FALSE, ![c].up = FALSE]
  /\ UNCHANGED <<cached, receiver, calls, pending, asked, answers, breaks>>

RpcInit ==
  /\ links = [c \in Links |-> [made |-> FALSE, open |-> FALSE, up |-> FALSE]]
  /\ cached = 0 /\ receiver = [listed |-> FALSE, link |-> 0]
  /\ calls = [r \in Calls |-> [at |-> "new", link |-> 0, answer |-> "none"]]
  /\ pending = {} /\ asked = {} /\ answers = {} /\ breaks = 0

RpcNext ==
  \/ \E r \in Calls :
       \/ StartRequest(r) \/ HandshakeDone(r) \/ HandshakeFails(r) \/ EnsureReceiver(r)
       \/ Sent(r) \/ SendFails(r) \/ Return(r) \/ RequestTimeout(r) \/ CallerGivesUp(r)
  \/ PeerAnswers \/ ReceiveAnswer \/ ReceiverStops \/ ReceiverUnlisted \/ PeerRestarts
  \/ \E c \in Links : IdleTimeout(c)

RpcSpec == RpcInit /\ [][RpcNext]_rpcVars

-----------------------------------------------------------------------------
\* The type of the state: no more than one usable connection is cached, and a
\* receive task is listed.
RpcTypeOK ==
  /\ cached \in 0..MaxLinks /\ (cached # 0 => links[cached].made)
  /\ receiver.link # 0 => receiver.listed
  /\ pending \subseteq Calls /\ breaks \in 0..MaxBreaks
  /\ \A r \in Calls : calls[r].at \in
       {"new", "handshake", "ensure", "send", "wait", "done", "refused", "unsent", "timeout", "dropped"}

\* A request gets its own answer, and one that waits is still in the table
\* unless its answer is there: no answer of an earlier or of a late request
\* takes its place, however connections are replaced.
AnswersMatch ==
  \A r \in Calls :
    /\ calls[r].answer \in {"none", r}
    /\ calls[r].at \in {"send", "wait"} => r \in pending \/ calls[r].answer = r

\* The table of pending requests keeps none that has returned, except those
\* whose cleanup the code never reaches: a failed send, and a caller that was
\* dropped.
PendingIsOwned ==
  \A r \in pending : calls[r].at \notin {"done", "timeout", "refused"}
=============================================================================
