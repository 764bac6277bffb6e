------------------------------ MODULE Gateway ------------------------------
(***************************************************************************)
(* The way of a transaction into the log (tx-generator main.rs,            *)
(* rpc-gateway main.rs, distributed-walrus cli_client.rs and client.rs):   *)
(* generators send one transaction after the other to the gateway, which   *)
(* limits the requests at work, registers the topic once, and hands the    *)
(* transactions to a batch task.  That task writes a batch with concurrent *)
(* PUT commands, each on a connection of its own, and answers when all of  *)
(* them are done.  A request that takes too long is dropped, its           *)
(* transaction is not taken back.                                          *)
(***************************************************************************)
EXTENDS Integers, Sequences, FiniteSets, Functions

CONSTANTS Generators,    \* clients
          Count,         \* transactions per generator
          MaxConcurrent, \* permits of the semaphore
          ChannelSize,   \* places in the batch channel (10000)
          MaxBatchSize,
          MaxPutFailures    \* bound on lost answers, failed commands and restarts

ASSUME GatewayAssumption ==
  /\ Count \in Nat /\ MaxPutFailures \in Nat
  /\ {MaxConcurrent, ChannelSize, MaxBatchSize} \subseteq Nat \ {0}

VARIABLES reqs,     \* where each request stands
          permits,  \* free permits
          cell,     \* topic_registered: set, or the request that registers
          queue,    \* the batch channel
          batch,    \* tasks that the batch task has collected
          puts,     \* the batch being written: the result of each PUT
          walrus,   \* the cluster: whether the topic exists, and its log
          putFailures

gatewayVars == <<reqs, permits, cell, queue, batch, puts, walrus, putFailures>>

Requests == Generators \X (1..Count)
NoRequest == <<"none", 0>>
Ends == {"ok", "error", "timeout", "lost"}
InTime(r) == reqs[r] \in {"register", "registering", "submit", "wait"}

\* Faulty: the permit is kept when the request does not succeed.
BadEnd(r, result) ==
  /\ reqs' = [reqs EXCEPT ![r] = result]
  /\ permits' = IF result = "ok" THEN permits + 1 ELSE permits

\* send_transaction and send_raw_transaction return: the permit is dropped.
End(r, result) ==
  /\ reqs' = [reqs EXCEPT ![r] = result]
  /\ permits' = permits + 1

-----------------------------------------------------------------------------
(* A generator: the next transaction when the last one is answered. *)

SendRawTransaction(r) ==
  /\ reqs[r] = "new" /\ (r[2] > 1 => reqs[<<r[1], r[2] - 1>>] \in Ends)
  /\ reqs' = [reqs EXCEPT ![r] = "permit"]
  /\ UNCHANGED <<permits, cell, queue, batch, puts, walrus, putFailures>>

-----------------------------------------------------------------------------
(* The gateway's handler *)

\* semaphore.acquire, which has no time limit.
Acquire(r) ==
  /\ reqs[r] = "permit" /\ permits > 0
  /\ permits' = permits - 1
  /\ reqs' = [reqs EXCEPT ![r] = "register"]
  /\ UNCHANGED <<cell, queue, batch, puts, walrus, putFailures>>

\* ensure_topic_registered: get_or_try_init lets one request at a time try.
EnsureTopicRegistered(r) ==
  /\ reqs[r] = "register"
  /\ \/ cell.set /\ reqs' = [reqs EXCEPT ![r] = "submit"] /\ UNCHANGED cell
     \/ /\ ~cell.set /\ cell.by = NoRequest
        /\ cell' = [cell EXCEPT !.by = r] /\ reqs' = [reqs EXCEPT ![r] = "registering"]
  /\ UNCHANGED <<permits, queue, batch, puts, walrus, putFailures>>

\* CliClient::register: the topic is there and the cell is set, or the
\* command fails, before or after it was carried out.
Registered(r) ==
  /\ reqs[r] = "registering"
  /\ \/ /\ walrus' = [walrus EXCEPT !.topic = TRUE]
        /\ cell' = [set |-> TRUE, by |-> NoRequest]
        /\ reqs' = [reqs EXCEPT ![r] = "submit"] /\ UNCHANGED <<permits, putFailures>>
     \/ /\ putFailures < MaxPutFailures /\ putFailures' = putFailures + 1
        /\ \E done \in BOOLEAN : walrus' = [walrus EXCEPT !.topic = @ \/ done]
        /\ cell' = [cell EXCEPT !.by = NoRequest]
        /\ End(r, "error")
  /\ UNCHANGED <<queue, batch, puts>>

\* BatchProcessor::submit.
SubmitTx(r) ==
  /\ reqs[r] = "submit" /\ Len(queue) < ChannelSize
  /\ queue' = Append(queue, r)
  /\ reqs' = [reqs EXCEPT ![r] = "wait"]
  /\ UNCHANGED <<permits, cell, batch, puts, walrus, putFailures>>

\* tokio::time::timeout drops process_transaction wherever it waits: a
\* registration can be tried by another request, a task stays in the queue.
RequestExpires(r) ==
  /\ InTime(r)
  /\ End(r, "timeout")
  /\ cell' = IF cell.by = r THEN [cell EXCEPT !.by = NoRequest] ELSE cell
  /\ UNCHANGED <<queue, batch, puts, walrus, putFailures>>

-----------------------------------------------------------------------------
(* The batch task *)

Writing == DOMAIN puts # {}
StartBatch(tasks) ==
  /\ puts' = [r \in Range(tasks) |-> "none"]
  /\ batch' = <<>>

\* A task comes in; a full batch is processed at once.
ReceiveTask ==
  /\ ~Writing /\ queue # <<>>
  /\ queue' = Tail(queue)
  /\ LET tasks == Append(batch, Head(queue)) IN
       IF Len(tasks) >= MaxBatchSize THEN StartBatch(tasks) ELSE batch' = tasks /\ UNCHANGED puts
  /\ UNCHANGED <<reqs, permits, cell, walrus, putFailures>>

IntervalTick ==
  /\ ~Writing /\ batch # <<>>
  /\ StartBatch(batch)
  /\ UNCHANGED <<reqs, permits, cell, queue, walrus, putFailures>>

\* CliClient::put and the listener's PUT: a connection, a command, an answer.
\* The append may be done and its answer lost.
Put(r) ==
  /\ r \in DOMAIN puts /\ puts[r] = "none"
  /\ \/ /\ walrus.topic
        /\ walrus' = [walrus EXCEPT !.log = Append(@, r)]
        /\ puts' = [puts EXCEPT ![r] = "ok"] /\ UNCHANGED putFailures
     \/ /\ putFailures < MaxPutFailures \/ ~walrus.topic
        /\ putFailures' = IF walrus.topic THEN putFailures + 1 ELSE putFailures
        /\ walrus' \in {walrus} \cup {w \in {[walrus EXCEPT !.log = Append(@, r)]} : walrus.topic}
        /\ puts' = [puts EXCEPT ![r] = "error"]
  /\ UNCHANGED <<reqs, permits, cell, queue, batch>>

\* Faulty: a request that waits is answered for a batch that has any success.
BadResult(r) == IF \E p \in DOMAIN puts : puts[p] = "ok" THEN "ok" ELSE puts[r]

\* The response of a task: its own PUT's result.
Result(r) == puts[r]

\* join_all is done: every task that is still waited for is answered.
FinishBatch ==
  /\ Writing /\ \A r \in DOMAIN puts : puts[r] # "none"
  /\ LET waited == {r \in DOMAIN puts : reqs[r] = "wait"} IN
       /\ reqs' = [r \in Requests |-> IF r \in waited THEN Result(r) ELSE reqs[r]]
       /\ permits' = permits + Cardinality(waited)
  /\ puts' = <<>>
  /\ UNCHANGED <<cell, queue, batch, walrus, putFailures>>

\* The gateway stops and starts again: what it held is gone, its clients see
\* their connections close.
GatewayRestart ==
  /\ putFailures < MaxPutFailures /\ putFailures' = putFailures + 1
  /\ reqs' = [r \in Requests |-> IF reqs[r] \in Ends \cup {"new"} THEN reqs[r] ELSE "lost"]
  /\ permits' = MaxConcurrent /\ cell' = [set |-> FALSE, by |-> NoRequest]
  /\ queue' = <<>> /\ batch' = <<>> /\ puts' = <<>>
  /\ UNCHANGED walrus

GatewayInit ==
  /\ reqs = [r \in Requests |-> "new"] /\ permits = MaxConcurrent
  /\ cell = [set |-> FALSE, by |-> NoRequest]
  /\ queue = <<>> /\ batch = <<>> /\ puts = <<>>
  /\ walrus = [topic |-> FALSE, log |-> <<>>] /\ putFailures = 0

Handler(r) ==
  \/ Acquire(r) \/ EnsureTopicRegistered(r) \/ Registered(r) \/ SubmitTx(r) \/ RequestExpires(r)

GatewayNext ==
  \/ \E r \in Requests : SendRawTransaction(r) \/ Handler(r) \/ Put(r)
  \/ ReceiveTask \/ IntervalTick \/ FinishBatch \/ GatewayRestart

\* The runtime runs the handlers, and the timer of a request runs out.  The
\* semaphore of tokio serves its waiters in the order in which they came, so
\* that a request gets a permit that is free again and again.
GatewayFairness ==
  \A r \in Requests :
    /\ WF_gatewayVars(SendRawTransaction(r))
    /\ WF_gatewayVars(RequestExpires(r)) /\ SF_gatewayVars(Acquire(r))

GatewaySpec == GatewayInit /\ [][GatewayNext]_gatewayVars /\ GatewayFairness

-----------------------------------------------------------------------------
\* The type of the state: every request that works holds one permit.
GatewayTypeOK ==
  /\ permits = MaxConcurrent - Cardinality({r \in Requests : InTime(r)})
  /\ cell.by # NoRequest => reqs[cell.by] = "registering"
  /\ Len(queue) <= ChannelSize /\ Len(batch) < MaxBatchSize

\* A transaction that was acknowledged is in the log, and no transaction is
\* written twice, whatever was answered: one submission is one PUT.
AckedIsWritten ==
  /\ \A r \in Requests : reqs[r] = "ok" => r \in Range(walrus.log)
  /\ IsInjective(walrus.log)

\* The transactions of a generator that were acknowledged are in the log in
\* the order in which it sent them.
AckedInOrder ==
  \A i, j \in DOMAIN walrus.log :
    LET r == walrus.log[i]  s == walrus.log[j] IN
    r[1] = s[1] /\ r[2] < s[2] /\ reqs[r] = "ok" => i < j

\* Every request is answered in the end, the requests that wait for a permit
\* included, although the cluster or the batch task may hang.
RequestsEnd == <>(\A r \in Requests : reqs[r] \in Ends)

=============================================================================
