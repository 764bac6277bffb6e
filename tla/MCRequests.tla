---------------------------- MODULE MCRequests ----------------------------
(***************************************************************************)
(* Requests between nodes (OctopiiRpc), the RPC gateway of the clients     *)
(* (Gateway) and the block producer behind it (BlockProducer): part says   *)
(* which of them runs, the others have no work.  The producer serves two   *)
(* senders with blocks of gas 2; one transaction fills a block, one halts, *)
(* and one destroys a contract.                                            *)
(***************************************************************************)
EXTENDS OctopiiRpc, Gateway, BlockProducer

VARIABLE part

requestsVars == <<part, rpcVars, gatewayVars, producerVars>>

T(from, nonce, gas, run) ==
  [from |-> from, nonce |-> nonce, gas |-> gas, need |-> 2, value |-> 1,
   run |-> run]

MCTx ==
  {T("a", 0, 2, "success"), T("a", 1, 1, "revert"), T("b", 0, 1, "selfdestruct"),
   T("b", 1, 1, "halt")}

NoGateway ==
  /\ reqs = [r \in Requests |-> "lost"] /\ permits = MaxConcurrent
  /\ cell = [set |-> FALSE, by |-> NoRequest]
  /\ queue = <<>> /\ batch = <<>> /\ puts = <<>>
  /\ walrus = [topic |-> FALSE, log |-> <<>>] /\ putFailures = 0

RequestsInit ==
  /\ part \in {"rpc", "gateway", "producer"}
  /\ RpcInit /\ ProducerInit
  /\ IF part = "gateway" THEN GatewayInit ELSE NoGateway

RequestsNext ==
  /\ UNCHANGED part
  /\ \/ part = "rpc" /\ RpcNext /\ UNCHANGED <<gatewayVars, producerVars>>
     \/ part = "gateway" /\ GatewayNext /\ UNCHANGED <<rpcVars, producerVars>>
     \/ part = "producer" /\ ProducerNext /\ UNCHANGED <<rpcVars, gatewayVars>>

RequestsSpec ==
  /\ RequestsInit /\ [][RequestsNext]_requestsVars
  /\ GatewayFairness
  /\ part = "producer" => ProducerFairness
=============================================================================
