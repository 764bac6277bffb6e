------------------------------ MODULE StateDb ------------------------------
(***************************************************************************)
(* The block producer's state database: the StateDatabase trait, its two   *)
(* implementations - RedbStateDB, which a block is executed on, and        *)
(* WalrusStateDB, which keeps every version of a value in a Walrus topic   *)
(* behind an LRU cache - and the account cache of the REVM adapter.        *)
(*                                                                         *)
(* A key names an account, a storage slot, a contract's code or a block    *)
(* hash.  store holds the durable versions of a key: Redb keeps the last   *)
(* one, Walrus all of them.  truth and view are the reference: a plain     *)
(* map with the committed values, and the same with the changes of the     *)
(* open transaction.                                                       *)
(***************************************************************************)
EXTENDS Integers, Sequences, FiniteSets, Functions, TLC

CONSTANTS
  Builtin,     \* addresses of the preconfigured wallets
  Contracts,   \* addresses that can be destroyed
  MaxDbOps,    \* bound: writes and transactions of a behaviour
  ReadLimit    \* versions of a topic that fit into the 10 MB of one read

ASSUME StateDbAssumption ==
  /\ Builtin \cap Contracts = {}
  /\ MaxDbOps \in Nat
  /\ ReadLimit \in Nat \ {0}

VARIABLES
  dbKind,   \* "redb" or "walrus"
  store,    \* key -> durable versions, oldest first
  buffer,   \* tx_buffer: open or not, buffered values, deleted_accounts
  dbCache,  \* StateCache of WalrusStateDB
  changed,  \* changed_accounts
  info,     \* account cache of CachedRedbState
  truth, view, base, \* reference: committed, seen in the transaction, at begin
  flawed,   \* keys of accounts whose deletion the commit does not carry out
  dbOps     \* writes and transactions so far

dbVars == <<dbKind, store, buffer, dbCache, changed, info, truth, view, base,
            flawed, dbOps>>

Addresses == Builtin \cup Contracts
AccKeys   == {"acc"} \X Addresses
StorKeys  == {"stor"} \X Contracts
DbKeys      == AccKeys \cup StorKeys \cup {<<"code", "c">>, <<"hash", "n">>}
DbValues    == 1 .. 2
Missing    == -1
Default   == 0       \* the empty account, the zero slot
Genesis   == 1       \* the initial balance of a wallet
NoBuffer  == [open |-> FALSE, puts |-> <<>>, deleted |-> {}]
NoEntry     == <<>>    \* the function with no argument

(* basic() gives the EVM the empty account for one that is not there, and  *)
(* get_storage zero for a missing slot.                                    *)
AsSeen(v) == IF v = Missing THEN Default ELSE v

With(f, k, v)   == (k :> v) @@ f
Without(f, S)   == Restrict(f, DOMAIN f \ S)
DbTypeOK ==
  /\ dbKind \in {"redb", "walrus"}
  /\ \A k \in DbKeys : /\ \A i \in DOMAIN store[k] : store[k][i] \in DbValues \cup {Default}
                     /\ dbKind = "redb" => Len(store[k]) =< 1
  /\ buffer.open \in BOOLEAN /\ DOMAIN buffer.puts \subseteq DbKeys
  /\ buffer.deleted \subseteq Contracts
  /\ ~buffer.open => buffer = NoBuffer
  /\ DOMAIN dbCache \subseteq DbKeys /\ (dbKind = "redb" => dbCache = NoEntry)
  /\ DOMAIN info \subseteq Addresses /\ changed \subseteq Addresses
  /\ flawed \subseteq AccKeys /\ dbOps \in 0 .. MaxDbOps

(***************************************************************************)
(* Reading.                                                                *)
(***************************************************************************)
(* Redb's table, or the last entry of the first 10 MB of the topic: the    *)
(* read never checkpoints, so it always starts at the first entry.         *)
read_latest(k) ==
  LET n == IF dbKind = "redb" \/ Len(store[k]) =< ReadLimit THEN Len(store[k])
           ELSE ReadLimit
  IN IF n = 0 THEN Missing ELSE store[k][n]

load(k) == IF k \in DOMAIN dbCache THEN dbCache[k] ELSE read_latest(k)

(* get_code of both, and get_block_hash of Walrus, do not look into the    *)
(* buffer of the open transaction.                                         *)
LooksIntoBuffer(k) ==
  k \in AccKeys \cup StorKeys \/ (k = <<"hash", "n">> /\ dbKind = "redb")

get(k) ==
  IF LooksIntoBuffer(k) /\ k \in DOMAIN buffer.puts THEN buffer.puts[k]
  ELSE IF k \in AccKeys /\ k[2] \in buffer.deleted THEN Missing
  ELSE load(k)

(***************************************************************************)
(* Opening.  A new Redb file gets the preconfigured wallets; an existing   *)
(* one only those it does not hold.                                        *)
(***************************************************************************)

initialize_builtin_accounts(old) ==
  [k \in DbKeys |-> IF k \in AccKeys /\ k[2] \in Builtin /\ old[k] = <<>>
                  THEN <<Genesis>> ELSE old[k]]

Opened(kind, old) == IF kind = "redb" THEN initialize_builtin_accounts(old) ELSE old

DbInit(kinds) ==
  /\ dbKind \in kinds
  /\ store = Opened(dbKind, [k \in DbKeys |-> <<>>])
  /\ buffer = NoBuffer /\ dbCache = NoEntry /\ info = NoEntry
  /\ changed = {} /\ flawed = {} /\ dbOps = 0
  /\ truth = [k \in DbKeys |-> IF store[k] = <<>> THEN Missing ELSE Genesis]
  /\ view = truth /\ base = truth

(* A getter of WalrusStateDB that goes to the log leaves the value in the  *)
(* cache.                                                                  *)
ReadThrough(k) ==
  /\ dbKind = "walrus"
  /\ ~(LooksIntoBuffer(k) /\ k \in DOMAIN buffer.puts)
  /\ ~(k \in AccKeys /\ k[2] \in buffer.deleted)
  /\ k \notin DOMAIN dbCache /\ read_latest(k) # Missing
  /\ dbCache' = With(dbCache, k, read_latest(k))
  /\ UNCHANGED <<dbKind, store, buffer, changed, info, truth, view, base, flawed, dbOps>>

(* clear_cache, or the LRU cache at its capacity, drops entries.           *)
CacheDrops ==
  /\ \E S \in SUBSET DOMAIN dbCache \ {{}} : dbCache' = Without(dbCache, S)
  /\ UNCHANGED <<dbKind, store, buffer, changed, info, truth, view, base, flawed, dbOps>>

(***************************************************************************)
(* Writing.                                                                *)
(***************************************************************************)

track_changed_account(k) ==
  IF k \in AccKeys \cup StorKeys THEN changed \cup {k[2]} ELSE changed

(* One more durable version of a key.                                      *)
persist(old, k, v) ==
  [old EXCEPT ![k] = IF dbKind = "redb" THEN <<v>> ELSE Append(@, v)]

(* set_account, set_storage, set_code, set_block_hash.                     *)
SetValue(k, v) ==
  /\ dbOps < MaxDbOps /\ info = NoEntry
  /\ changed' = track_changed_account(k)
  /\ view' = [view EXCEPT ![k] = v]
  /\ IF buffer.open
     THEN /\ buffer' = [buffer EXCEPT !.puts = With(@, k, v)]
          /\ UNCHANGED <<store, dbCache, truth, flawed>>
     ELSE /\ store' = persist(store, k, v)
          /\ dbCache' = IF dbKind = "redb" THEN dbCache ELSE With(dbCache, k, v)
          /\ truth' = view' /\ flawed' = flawed \ {k}
          /\ UNCHANGED buffer
  /\ dbOps' = dbOps + 1
  /\ UNCHANGED <<dbKind, info, base>>

BadBuffered(k) == [buffer EXCEPT !.deleted = @ \cup {k[2]}]
DeleteBuffered(k) ==
  [buffer EXCEPT !.puts = Without(@, {k}), !.deleted = @ \cup {k[2]}]

(* delete_account: Redb removes the row, Walrus writes an empty account    *)
(* and forgets the cached one.                                             *)
DeleteAccount(k) ==
  /\ dbOps < MaxDbOps /\ k \in AccKeys /\ k[2] \in Contracts /\ info = NoEntry
  /\ changed' = track_changed_account(k)
  /\ view' = [view EXCEPT ![k] = Missing]
  /\ IF buffer.open
     THEN /\ buffer' = DeleteBuffered(k)
          /\ UNCHANGED <<store, dbCache, truth, flawed>>
     ELSE /\ store' = IF dbKind = "redb" THEN [store EXCEPT ![k] = <<>>]
                      ELSE persist(store, k, Default)
          /\ dbCache' = Without(dbCache, {k})
          /\ truth' = view' /\ flawed' = flawed \ {k}
          /\ UNCHANGED buffer
  /\ dbOps' = dbOps + 1
  /\ UNCHANGED <<dbKind, info, base>>

(***************************************************************************)
(* Transactions.                                                           *)
(***************************************************************************)
begin_transaction ==
  /\ ~buffer.open /\ dbOps < MaxDbOps
  /\ buffer' = [NoBuffer EXCEPT !.open = TRUE]
  /\ changed' = {} /\ base' = truth
  /\ dbOps' = dbOps + 1
  /\ UNCHANGED <<dbKind, store, dbCache, info, truth, view, flawed>>

Written(puts) ==
  [k \in DbKeys |-> IF k \notin DOMAIN puts THEN store[k]
                  ELSE IF dbKind = "redb" THEN <<puts[k]>>
                  ELSE Append(store[k], puts[k])]

(* Redb inserts the buffered accounts first and then removes every deleted *)
(* one; Walrus never looks at deleted_accounts.                            *)
CommittedStore(puts) ==
  [k \in DbKeys |-> IF /\ dbKind = "redb" /\ k \in AccKeys
                     /\ k[2] \in buffer.deleted
                  THEN <<>> ELSE Written(puts)[k]]

NotCarriedOut ==
  {k \in AccKeys : /\ k[2] \in buffer.deleted
                   /\ dbKind = "redb" => k \in DOMAIN buffer.puts}

commit_transaction ==
  /\ buffer.open /\ info = NoEntry
  /\ store' = CommittedStore(buffer.puts)
  /\ dbCache' = IF dbKind = "redb" THEN dbCache ELSE buffer.puts @@ dbCache
  /\ truth' = view
  /\ flawed' = (flawed \ DOMAIN buffer.puts) \cup NotCarriedOut
  /\ buffer' = NoBuffer
  /\ UNCHANGED <<dbKind, changed, info, view, base, dbOps>>

(* The values that reach the topics before an append of the commit fails:  *)
(* accounts, then slots, then code, then block hashes.                     *)
KeyGroup(k) == CASE k[1] = "acc" -> 1 [] k[1] = "stor" -> 2
              [] k[1] = "code" -> 3 [] k[1] = "hash" -> 4

PartialCommits ==
  {S \in SUBSET DOMAIN buffer.puts :
     /\ S # DOMAIN buffer.puts
     /\ \A k \in S, l \in DOMAIN buffer.puts \ S : KeyGroup(k) =< KeyGroup(l)}

(* The commit fails: the buffer is gone already.  A Redb write transaction *)
(* that is dropped leaves nothing, an append to Walrus stays.              *)
CommitFails ==
  /\ buffer.open /\ DOMAIN buffer.puts # {} /\ info = NoEntry
  /\ \E S \in IF dbKind = "redb" THEN {{}} ELSE PartialCommits :
       LET puts == Restrict(buffer.puts, S)
       IN /\ store' = Written(puts)
          /\ dbCache' = puts @@ dbCache
          /\ truth' = puts @@ truth /\ view' = puts @@ truth
          /\ flawed' = flawed \ S
  /\ buffer' = NoBuffer
  /\ UNCHANGED <<dbKind, changed, info, base, dbOps>>

(* rollback_transaction, after which execute_block returns its error and   *)
(* the executor is dropped with its cache.                                 *)
rollback_transaction ==
  /\ buffer.open
  /\ buffer' = NoBuffer
  /\ changed' = {} /\ view' = truth /\ info' = NoEntry
  /\ UNCHANGED <<dbKind, store, dbCache, truth, base, flawed, dbOps>>

(* The process stops and opens the database again.                         *)
Reopen ==
  /\ store' = Opened(dbKind, store)
  /\ buffer' = NoBuffer /\ dbCache' = NoEntry /\ changed' = {} /\ info' = NoEntry
  /\ view' = truth /\ base' = truth
  /\ UNCHANGED <<dbKind, truth, flawed, dbOps>>

(***************************************************************************)
(* The REVM adapter, which is only used with Redb.                         *)
(***************************************************************************)
(* basic(): the account as the EVM sees it is kept in the adapter's cache. *)
basic(a) ==
  /\ dbKind = "redb" /\ buffer.open /\ a \notin DOMAIN info
  /\ info' = With(info, a, AsSeen(get(<<"acc", a>>)))
  /\ UNCHANGED <<dbKind, store, buffer, dbCache, changed, truth, view, base, flawed, dbOps>>

AfterApply == NoEntry

(* A transaction of the EVM ends: apply_state_changes writes the accounts  *)
(* it touched, all of which it has read, destroys one or not, and the      *)
(* cache is cleared.                                                       *)
Apply(S, gone) ==
  /\ dbKind = "redb" /\ buffer.open /\ dbOps < MaxDbOps
  /\ S \subseteq DOMAIN info /\ S # {} /\ gone \subseteq S \cap Contracts
  /\ LET puts == [k \in {"acc"} \X (S \ gone) |-> 2]
     IN /\ buffer' = [buffer EXCEPT !.puts = puts @@ Without(@, {"acc"} \X gone),
                                    !.deleted = @ \cup gone]
        /\ view' = [k \in DbKeys |-> IF k \in {"acc"} \X gone THEN Missing
                                   ELSE IF k \in DOMAIN puts THEN 2 ELSE view[k]]
  /\ changed' = changed \cup S
  /\ info' = AfterApply
  /\ dbOps' = dbOps + 1
  /\ UNCHANGED <<dbKind, store, dbCache, truth, base, flawed>>

DbNext ==
  \/ \E k \in DbKeys : ReadThrough(k) \/ DeleteAccount(k) \/ \E v \in DbValues : SetValue(k, v)
  \/ CacheDrops \/ Reopen
  \/ begin_transaction \/ commit_transaction \/ CommitFails \/ rollback_transaction
  \/ \E a \in Addresses : basic(a)
  \/ \E S, gone \in SUBSET Addresses : Apply(S, gone)

DbSpec == DbInit({"redb", "walrus"}) /\ [][DbNext]_dbVars

(***************************************************************************)
(* Properties.                                                             *)
(***************************************************************************)
(* A getter returns what the reference holds - the last write of the open  *)
(* transaction, or the committed value for code and hashes that are looked *)
(* up past the buffer - whatever was committed, rolled back, evicted,      *)
(* failed or reopened before; only an account that was deleted in a        *)
(* transaction may come back or get lost (see flawed).                     *)
ReadsMatch ==
  \A k \in DbKeys \ flawed :
    AsSeen(get(k)) = AsSeen(IF LooksIntoBuffer(k) THEN view[k] ELSE truth[k])

(* changed_accounts, from which the state root is computed, names every    *)
(* account whose record or storage is not what it was when the transaction *)
(* began.                                                                  *)
ChangedIsTracked ==
  \A k \in AccKeys \cup StorKeys :
    view[k] # base[k] => k[2] \in changed

(* What the EVM is given of an account never lags behind the database,     *)
(* although the adapter caches it.                                         *)
AdapterIsCurrent ==
  \A a \in DOMAIN info : info[a] = AsSeen(get(<<"acc", a>>))

(* The reference for readers who expect it: code stored by an earlier      *)
(* transaction of the same block is found.                                 *)
CodeIsFound ==
  AsSeen(get(<<"code", "c">>)) = AsSeen(view[<<"code", "c">>])

(* A committed deletion or re-creation of an account stays.                *)
DeletionsStay == flawed = {}
=============================================================================
