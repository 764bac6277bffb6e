--------------------------- MODULE BlockProducer ---------------------------
(***************************************************************************)
(* The block producer (block-producer/src): it reads transactions from a   *)
(* Walrus topic into a pool, packs a block every tick, executes it against *)
(* the state database, saves it, and moves on to the next number.          *)
(*                                                                         *)
(* A transaction is its sender, its nonce, its gas limit, the balance      *)
(* validation asks for, the value it pays (blocks carry no gas price), and *)
(* how the EVM (revm, external) will end it.  The topic is a               *)
(* queue whose reader a restart of Walrus may put back (module WalQueue).  *)
(* A block hash is the header itself; payments to others are left out.     *)
(***************************************************************************)
EXTENDS Integers, FiniteSets, SequencesExt

CONSTANTS Tx,         \* transactions: [from, nonce, gas, need, value, run]
          Junk,       \* a message parse_transaction refuses
          Funds,      \* the balance every account starts with
          GasLimit,   \* DEFAULT_BLOCK_GAS_LIMIT
          PoolMax,    \* pool_max_size
          MaxMessages, MaxFailures, MaxRestarts

ASSUME ProducerAssumption ==
  /\ Tx \subseteq [from : {t.from : t \in Tx}, nonce : Nat, gas : Nat, need : Nat,
                   value : Nat, run : {"success", "revert", "halt", "selfdestruct"}]
  /\ \A t \in Tx : t.value <= t.need
  /\ {Funds, GasLimit, PoolMax, MaxMessages, MaxFailures, MaxRestarts} \subseteq Nat

VARIABLES topic,     \* the messages appended to the topic
          taken,     \* how many of them Walrus has handed out
          pool,      \* pending_pool
          step,      \* where produce_block is
          block,     \* the transactions selected for the block
          ran,       \* what execute_block did with them
          accounts,  \* the accounts in the state database
          number,    \* current_block_number
          parent,    \* last_block_hash
          saved,     \* the blocks in the state database, by number
          executed,  \* the transactions whose effects were committed, in order
          rejected,  \* the transactions validation turned away
          failures, restarts

topicVars    == <<topic, taken>>
chainVars    == <<number, parent, saved>>
stateVars    == <<accounts, executed, rejected>>
producerVars == <<topicVars, pool, step, block, ran, chainVars, stateVars,
                  failures, restarts>>

Account == {t.from : t \in Tx}
NoHash  == [number |-> -1]

Header(root) ==
  [number |-> number, parent |-> parent, txs |-> block, root |-> root]

\* The type of the state.
ProducerTypeOK ==
  /\ topic \in Seq(Tx \cup {Junk})
  /\ taken \in 0..Len(topic)
  /\ pool \in Seq(Tx) /\ Len(pool) <= PoolMax
  /\ step \in {"idle", "refill", "execute", "finish"}
  /\ block \in Seq(Tx)
  /\ accounts \in [Account -> [nonce : Nat, balance : Nat]]
  /\ number \in Nat
  /\ DOMAIN saved \subseteq Nat
  /\ executed \in Seq(Tx) /\ rejected \subseteq Tx
  /\ failures \in 0..MaxFailures /\ restarts \in 0..MaxRestarts

\* A fresh database with the builtin accounts, and BlockProducer::new.
ProducerInit ==
  /\ topic = <<>> /\ taken = 0
  /\ pool = <<>> /\ step = "idle" /\ block = <<>> /\ ran = <<>>
  /\ accounts = [a \in Account |-> [nonce |-> 0, balance |-> Funds]]
  /\ number = 0 /\ parent = NoHash /\ saved = [n \in {} |-> NoHash]
  /\ executed = <<>> /\ rejected = {}
  /\ failures = 0 /\ restarts = 0

-----------------------------------------------------------------------------
(* The topic.                                                              *)

Submit(msg) ==
  /\ Len(topic) < MaxMessages
  /\ topic' = Append(topic, msg)
  /\ UNCHANGED <<taken, pool, step, block, ran, chainVars, stateVars, failures,
                 restarts>>

\* A Walrus node restarted and hands out messages again.
WalrusRestarts ==
  /\ restarts < MaxRestarts
  /\ restarts' = restarts + 1
  /\ taken' \in 0..(taken - 1)
  /\ UNCHANGED <<topic, pool, step, block, ran, chainVars, stateVars, failures>>

-----------------------------------------------------------------------------
(* produce_block.                                                          *)

Tick ==
  /\ step = "idle"
  /\ step' = "refill"
  /\ UNCHANGED <<topicVars, pool, block, ran, chainVars, stateVars, failures,
                 restarts>>

\* One round of the loop of refill_pool.
Refill ==
  /\ step = "refill"
  /\ Len(pool) < PoolMax /\ taken < Len(topic)
  /\ taken' = taken + 1
  /\ pool' = IF topic[taken + 1] \in Tx THEN Append(pool, topic[taken + 1]) ELSE pool
  /\ UNCHANGED <<topic, step, block, ran, chainVars, stateVars, failures, restarts>>

\* The GET fails: produce_block gives up and the pool stays.
RefillFails ==
  /\ step = "refill" /\ Len(pool) < PoolMax
  /\ failures < MaxFailures
  /\ failures' = failures + 1
  /\ step' = "idle"
  /\ UNCHANGED <<topicVars, pool, block, ran, chainVars, stateVars, restarts>>

\* The pool in ascending order of nonce, equal ones in the order of the pool.
Candidates ==
  LET before(i, j) ==
        pool[i].nonce < pool[j].nonce \/ (pool[i].nonce = pool[j].nonce /\ i < j)
  IN  [k \in DOMAIN pool |->
         pool[CHOOSE i \in DOMAIN pool :
                Cardinality({j \in DOMAIN pool : before(j, i)}) = k - 1]]

\* Faulty: a transaction that fills the block to the limit does not fit.
BadPack(acc, t) ==
  IF acc.gas + t.gas < GasLimit
  THEN [acc EXCEPT !.gas = @ + t.gas, !.selected = Append(@, t)]
  ELSE [acc EXCEPT !.left = <<t>> \o @]

\* A candidate goes into the block, or back to the front of the pool.
Pack(acc, t) ==
  IF acc.gas + t.gas <= GasLimit
  THEN [acc EXCEPT !.gas = @ + t.gas, !.selected = Append(@, t)]
  ELSE [acc EXCEPT !.left = <<t>> \o @]

Packing ==
  FoldLeft(Pack, [gas |-> 0, selected |-> <<>>, left |-> <<>>], Candidates)

\* The rest of select_transactions_for_block; without a transaction there is
\* no block.
Select ==
  /\ step = "refill"
  /\ Len(pool) = PoolMax \/ taken = Len(topic)
  /\ pool' = Packing.left
  /\ block' = Packing.selected
  /\ step' = IF block' = <<>> THEN "idle" ELSE "execute"
  /\ UNCHANGED <<topicVars, ran, chainVars, stateVars, failures, restarts>>

\* validate_transaction.
Valid(acc, t) ==
  /\ t.gas > 0
  /\ t.nonce >= acc.nonce
  /\ t.need <= acc.balance

\* Faulty: the EVM is not told the nonce of the transaction.
BadRuns(acc, t) == t.run # "halt"

\* revm runs the transaction; any other end is an ExecutorError::Evm.
Runs(acc, t) == t.nonce = acc.nonce /\ t.run # "halt"

Paid(t) == IF t.run = "revert" THEN 0 ELSE t.value

\* One transaction of execute_block.  A fatal error ends the block.
ExecuteOne(acc, t) ==
  LET a == acc.accounts[t.from]
  IN  CASE acc.fatal -> acc
        [] ~acc.fatal /\ ~Valid(a, t) -> [acc EXCEPT !.rejected = @ \cup {t}]
        [] ~acc.fatal /\ Valid(a, t) /\ ~Runs(a, t) -> [acc EXCEPT !.fatal = TRUE]
        [] ~acc.fatal /\ Valid(a, t) /\ Runs(a, t) ->
             [acc EXCEPT !.accounts[t.from] =
                           [nonce |-> a.nonce + 1, balance |-> a.balance - Paid(t)],
                         !.executed = Append(@, t)]

Execution ==
  FoldLeft(ExecuteOne, [accounts |-> accounts, executed |-> <<>>, rejected |-> {},
                        fatal |-> FALSE], block)

\* execute_block: the changes are buffered and committed together.
Execute ==
  /\ step = "execute"
  /\ rejected' = rejected \cup Execution.rejected
  /\ IF Execution.fatal
     THEN /\ step' = "idle" /\ block' = <<>>
          /\ UNCHANGED <<ran, accounts, executed>>
     ELSE /\ step' = "finish" /\ ran' = Execution.executed
          /\ accounts' = Execution.accounts
          /\ executed' = executed \o Execution.executed
          /\ UNCHANGED block
  /\ UNCHANGED <<topicVars, pool, chainVars, failures, restarts>>

\* calculate_state_root finds no account for an address that was destroyed.
RootFails == \E i \in DOMAIN ran : ran[i].run = "selfdestruct"

\* The block is saved without the roots that its hash covers, and the producer
\* moves on.
Finish ==
  /\ step = "finish" /\ ~RootFails
  /\ saved' = [n \in DOMAIN saved \cup {number} |->
                 IF n = number THEN Header(FALSE) ELSE saved[n]]
  /\ parent' = Header(TRUE)
  /\ number' = number + 1
  /\ step' = "idle" /\ block' = <<>> /\ ran' = <<>>
  /\ UNCHANGED <<topicVars, pool, stateVars, failures, restarts>>

\* The database cannot be opened, committed to or saved to, or the root
\* cannot be calculated: produce_block fails and the next one has the number.
SubmitFails ==
  /\ step \in {"execute", "finish"}
  /\ \/ step = "finish" /\ RootFails /\ UNCHANGED failures
     \/ failures < MaxFailures /\ failures' = failures + 1
  /\ step' = "idle" /\ block' = <<>> /\ ran' = <<>>
  /\ UNCHANGED <<topicVars, pool, chainVars, stateVars, restarts>>

\* The producer dies and starts again on the same database.
ProducerRestarts ==
  /\ restarts < MaxRestarts
  /\ restarts' = restarts + 1
  /\ pool' = <<>> /\ step' = "idle" /\ block' = <<>> /\ ran' = <<>>
  /\ number' = 0 /\ parent' = NoHash
  /\ UNCHANGED <<topicVars, saved, stateVars, failures>>

-----------------------------------------------------------------------------
ProduceNext == Tick \/ Refill \/ Select \/ Execute \/ Finish

ProducerNext ==
  \/ \E msg \in Tx \cup {Junk} : Submit(msg)
  \/ ProduceNext
  \/ RefillFails \/ SubmitFails
  \/ WalrusRestarts \/ ProducerRestarts

\* The loop of start ticks for ever: it can always take a step, and does.
ProducerFairness == []<><<ProduceNext \/ SubmitFails>>_producerVars

ProducerSpec == ProducerInit /\ [][ProducerNext]_producerVars /\ ProducerFairness

-----------------------------------------------------------------------------
\* Of every sender exactly the transactions with nonces 0, 1, 2, ... take
\* effect, in that order and each once, although messages are delivered again,
\* blocks are sorted by nonce alone and filled by gas, and whole blocks fail.
ExecutedInOrder ==
  \A i \in DOMAIN executed :
    executed[i].nonce =
      Cardinality({j \in 1..(i - 1) : executed[j].from = executed[i].from})

\* A saved block holds no transaction whose effects were rolled back: each was
\* committed to the state before, or turned away by validation.
SavedIsDecided ==
  \A n \in DOMAIN saved : \A i \in DOMAIN saved[n].txs :
    \/ saved[n].txs[i] \in rejected
    \/ \E j \in DOMAIN executed : executed[j] = saved[n].txs[i]

\* A transaction that had to wait for gas and fits into a block by itself
\* does not stay in the pool for ever: again and again there is none in it.
SkippedIsPacked == []<>(\A i \in DOMAIN pool : pool[i].gas > GasLimit)

-----------------------------------------------------------------------------
\* main.rs, on return_to_pool: transactions whose execution failed go back to
\* the pool, so that none that was read is lost while the producer runs.
FailedReturnToPool ==
  restarts = 0 =>
    \A k \in 1..taken :
      \/ topic[k] = Junk \/ topic[k] \in rejected
      \/ \E i \in DOMAIN pool : pool[i] = topic[k]
      \/ \E i \in DOMAIN block : block[i] = topic[k]
      \/ \E i \in DOMAIN executed : executed[i] = topic[k]

\* README.md of the block producer: it maintains the structure of a chain,
\* block numbers and parent hashes, so a saved block is never replaced.
BlocksAreKept ==
  [][\A n \in DOMAIN saved : n \in DOMAIN saved' /\ saved'[n] = saved[n]]_producerVars
=============================================================================
