------------------------------- MODULE TxPool -------------------------------
(***************************************************************************)
(* The transaction pool, tx_memory_pool (src/src/cryptonote_core/          *)
(* tx_pool.cpp), as a record and one operator per method.                  *)
(*                                                                         *)
(* The pool lives in two places: the LMDB table txpool_meta, which         *)
(* survives a restart and is undone with its write transaction, and the    *)
(* members of tx_memory_pool, which are plain memory.  A pool p has        *)
(*   p.db         the table: txid -> metadata                              *)
(*   p.images     m_spent_key_images: key image -> ids of the pool         *)
(*                transactions that spend it (no entry is the empty set)   *)
(*   p.weight     m_txpool_weight                                          *)
(*   p.sorted     m_txs_by_fee_and_receive_time; its order is that of the  *)
(*                fee rates, which are taken to be distinct                *)
(*   p.timed_out  m_timed_out_transactions                                 *)
(*   p.cache_ok, p.cache_bad  m_input_cache, by the cached verdict         *)
(* A transaction is its id; what the code reads of its contents is given   *)
(* by the constant functions.                                              *)
(***************************************************************************)
EXTENDS Integers, FiniteSets, Sequences, FiniteSetsExt

CONSTANTS
  Tx,          \* transaction ids
  KeyImage,    \* key images
  Block,       \* block ids
  NoBlock,     \* crypto::null_hash as a block id
  vin,         \* Tx -> the sequence of key images its inputs spend
  ring,        \* Tx -> the blocks its ring members' outputs are in
  tx_weight,   \* Tx -> weight in bytes
  fee,         \* Tx -> fee
  Unrelayable, \* txs refused unless kept by block: fee, extra, unlock time
  nic,         \* hard fork version -> txs that pass the non-input rules
  txs,         \* Block -> the sequence of its tx_hashes
  MaxPoolWeight, \* m_txpool_max_weight
  MineStem     \* m_mine_stem_txes

ASSUME TxAssumption ==
  /\ NoBlock \notin Block
  /\ vin \in [Tx -> Seq(KeyImage)]
  /\ \A id \in Tx : IsInjective(vin[id])
  /\ ring \in [Tx -> SUBSET Block]
  /\ tx_weight \in [Tx -> Nat \ {0}]
  /\ fee \in [Tx -> Nat]
  /\ \A s, t \in Tx : s # t => fee[s] * tx_weight[t] # fee[t] * tx_weight[s]
  /\ txs \in [Block -> Seq(Tx)]
  /\ MaxPoolWeight \in Nat
  /\ MineStem \in BOOLEAN

-----------------------------------------------------------------------------
(* Relay methods (cryptonote_protocol/enums.h) and relay categories.       *)

relay_none    == 0
relay_local   == 1
relay_forward == 2
relay_stem    == 3
relay_fluff   == 4
relay_block   == 5
RelayMethod   == 0..5

Broadcasted(method) == method \in {relay_fluff, relay_block}
Legacy(method)      == method \in {relay_none, relay_fluff, relay_block}

(* Mistake: any report of a relay replaces the method.                     *)
upgrade_relay_method_replaces(old, new) == new

upgrade_relay_method(old, new) == IF old < new THEN new ELSE old

(* Metadata.  The receive time is kept as an age class: 0, older than      *)
(* CRYPTONOTE_MEMPOOL_TX_LIVETIME (1), and older than                      *)
(* CRYPTONOTE_MEMPOOL_TX_FROM_ALT_BLOCK_LIVETIME (2).                      *)
Meta == [method : RelayMethod, double_spend_seen : BOOLEAN,
         last_failed_id : Block \cup {NoBlock}, age : 0..2]

(* The contents of the txpool tables.                                      *)
IsTable(db) == DOMAIN db \subseteq Tx /\ db \in [DOMAIN db -> Meta]

KeptByBlock(p, id) == p.db[id].method = relay_block

(* txpool_tx_matches_category / have_tx with relay_category::legacy.       *)
have_tx(p, id) == id \in DOMAIN p.db /\ Legacy(p.db[id].method)

-----------------------------------------------------------------------------
(* What the pool asks of a transaction and of the chain, a sequence of     *)
(* blocks.                                                                 *)

Images(id) == Range(vin[id])
HigherRate(s, t) == fee[s] * tx_weight[t] > fee[t] * tx_weight[s]
TxsOf(chain) == UNION {Range(txs[chain[i]]) : i \in DOMAIN chain}
SpentOn(chain) == UNION {Images(id) : id \in TxsOf(chain)}

(* Blockchain::check_tx_inputs: nothing spent before, every ring member    *)
(* on this chain.                                                          *)
check_tx_inputs(chain, id) ==
  /\ Images(id) \cap SpentOn(chain) = {}
  /\ ring[id] \subseteq Range(chain)

(* tx_memory_pool::check_tx_inputs when not kept by block: the verdict is  *)
(* taken from the cache, or computed and cached.                           *)
CacheInputs(p, chain, id) ==
  IF id \in p.cache_ok \cup p.cache_bad THEN p
  ELSE IF check_tx_inputs(chain, id)
       THEN [p EXCEPT !.cache_ok = @ \cup {id}]
       ELSE [p EXCEPT !.cache_bad = @ \cup {id}]

ClearCache(p) == [p EXCEPT !.cache_ok = {}, !.cache_bad = {}]

(* Mistake: m_input_cache is not cleared.                                  *)
on_blockchain_keeps_cache(p) == p

on_blockchain_inc(p) == ClearCache(p)
on_blockchain_dec(p) == ClearCache(p)

-----------------------------------------------------------------------------
(* Key images.                                                             *)

have_tx_keyimg_as_spent(p, ki, id) ==
  /\ p.images[ki] # {}
  /\ p.images[ki] # {id} \/ have_tx(p, id)

have_tx_keyimges_as_spent(p, id) ==
  \E ki \in Images(id) : have_tx_keyimg_as_spent(p, ki, id)

(* The loop of insert_key_images stops at the first input it refuses; the  *)
(* inputs before it stay inserted.                                         *)
RefusesImage(p, id, relay, i) ==
  LET s == p.images[vin[id][i]] IN
  \/ relay # relay_block /\ ~ s \subseteq {id}
  \/ id \in s /\ have_tx(p, id)

InsertsImages(p, id, relay) ==
  \A i \in DOMAIN vin[id] : ~ RefusesImage(p, id, relay, i)

insert_key_images(p, id, relay) ==
  LET done == {i \in DOMAIN vin[id] :
                 \A j \in 1..i : ~ RefusesImage(p, id, relay, j)}
  IN  [ki \in KeyImage |->
         IF \E i \in done : vin[id][i] = ki THEN p.images[ki] \cup {id}
                                            ELSE p.images[ki]]

(* The loop of remove_transaction_keyimages, for each transaction of S,    *)
(* returns at the first input that is not recorded.  Removing one id never *)
(* disturbs the entries of another, so the order within S is immaterial.   *)
remove_transaction_keyimages(images, S) ==
  [ki \in KeyImage |->
     images[ki] \ {id \in S : \E i \in DOMAIN vin[id] :
                      /\ vin[id][i] = ki
                      /\ \A j \in 1..i : id \in images[vin[id][j]]}]

mark_double_spend(p, id) ==
  [p EXCEPT !.db =
     [t \in DOMAIN p.db |->
        IF \E ki \in Images(id) : t \in p.images[ki]
        THEN [p.db[t] EXCEPT !.double_spend_seen = TRUE] ELSE p.db[t]]]

-----------------------------------------------------------------------------
(* Removal.                                                                *)

WeightOf(S) == MapThenSumSet(LAMBDA id : tx_weight[id], S)

(* Mistake: the weight is not taken off.                                   *)
keep_txpool_weight(w, by) == w

reduce_txpool_weight(w, by) == IF by > w THEN 0 ELSE w - by

(* The removal that prune, take_tx and remove_stuck_transactions share:    *)
(* table row, weight, key images, sorted container.                        *)
RemoveTxs(p, S) ==
  [p EXCEPT !.db = Restrict(@, DOMAIN @ \ S),
            !.images = remove_transaction_keyimages(@, S),
            !.weight = reduce_txpool_weight(@, WeightOf(S)),
            !.sorted = @ \ S]

(* Mistake: the walk ends at the first transaction that is kept.           *)
PruneSetStops(p) ==
  LET evictable == {id \in p.sorted :
                      /\ \E other \in p.sorted : HigherRate(other, id)
                      /\ \A t \in p.sorted \cap DOMAIN p.db :
                           HigherRate(t, id) \/ ~ KeptByBlock(p, t)}
      below(id) == {t \in evictable : HigherRate(id, t)}
  IN  {id \in evictable : p.weight > MaxPoolWeight + WeightOf(below(id))}

(* The transactions prune evicts: from the lowest fee rate up, never the   *)
(* first of the container, skipping the kept ones, while the weight that   *)
(* is left exceeds the limit.                                              *)
PruneSet(p) ==
  LET evictable == {id \in p.sorted :
                      /\ \E other \in p.sorted : HigherRate(other, id)
                      /\ id \in DOMAIN p.db
                      /\ ~ KeptByBlock(p, id)}
      below(id) == {t \in evictable : HigherRate(id, t)}
  IN  {id \in evictable : p.weight > MaxPoolWeight + WeightOf(below(id))}

prune(p) == RemoveTxs(p, PruneSet(p))

take_txs(p, S) == RemoveTxs(p, S \cap DOMAIN p.db)

StuckSet(p) == {id \in DOMAIN p.db :
                  p.db[id].age >= IF KeptByBlock(p, id) THEN 2 ELSE 1}

remove_stuck_transactions(p) ==
  [RemoveTxs(p, StuckSet(p)) EXCEPT !.timed_out = @ \cup StuckSet(p)]

-----------------------------------------------------------------------------
(* add_tx.                                                                 *)

(* A row written over an existing one replaces it: the table has no        *)
(* duplicates, so MDB_NODUPDATA does not refuse the put.                   *)
PutRow(db, id, meta) ==
  [t \in DOMAIN db \cup {id} |-> IF t = id THEN meta ELSE db[t]]

(* Mistake: kept_by_block is not set.                                      *)
FreshMetaNotKept(method, seen) ==
  [method |-> IF method = relay_block THEN relay_fluff ELSE method,
   double_spend_seen |-> seen, last_failed_id |-> NoBlock, age |-> 0]

FreshMeta(method, seen) ==
  [method |-> method, double_spend_seen |-> seen,
   last_failed_id |-> NoBlock, age |-> 0]

(* Row, key images, sorted container; the weight only when m_added_to_pool.*)
InsertTx(p, id, meta, relay, added) ==
  [p EXCEPT !.db = PutRow(@, id, meta),
            !.images = insert_key_images(p, id, relay),
            !.weight = IF added THEN @ + tx_weight[id] ELSE @,
            !.sorted = @ \cup {id}]

Accept(p)      == [pool |-> prune(p), ok |-> TRUE]
Reject(p)      == [pool |-> p, ok |-> FALSE]
RejectImages(p, id, relay) ==
  Reject([p EXCEPT !.images = insert_key_images(p, id, relay)])

(* Mistake: what cannot be verified is not counted as added.               *)
AddInvalidUncounted(p, id) ==
  IF InsertsImages(p, id, relay_block)
  THEN Accept(InsertTx(p, id,
                FreshMeta(relay_block, have_tx_keyimges_as_spent(p, id)),
                relay_block, FALSE))
  ELSE RejectImages(p, id, relay_block)

(* Inputs that fail are ignored for a transaction kept by block.  It       *)
(* counts as added whether or not the table already had it.                *)
AddInvalidInputs(p, id) ==
  IF InsertsImages(p, id, relay_block)
  THEN Accept(InsertTx(p, id,
                FreshMeta(relay_block, have_tx_keyimges_as_spent(p, id)),
                relay_block, TRUE))
  ELSE RejectImages(p, id, relay_block)

(* Inputs that pass.  A stem transaction seen again in the stem phase is a *)
(* Dandelion++ loop and is fluffed.                                        *)
AddValidInputs(p, id, tx_relay) ==
  LET existing == id \in DOMAIN p.db
      old      == IF existing THEN p.db[id].method ELSE relay_none
      relay    == IF existing /\ tx_relay = relay_stem /\ old = relay_stem
                  THEN relay_fluff ELSE tx_relay
  IN  IF existing /\ relay <= old THEN Accept(p)
      ELSE IF InsertsImages(p, id, relay)
           THEN Accept(InsertTx(p, id,
                  FreshMeta(upgrade_relay_method(old, relay), FALSE),
                  relay, ~existing))
           ELSE RejectImages(p, id, relay)

(* Mistake: transactions that timed out are forgotten.                     *)
RefusedAgain(p, id, kept, version, nic_version) ==
  \/ version # nic_version /\ id \notin nic[version]
  \/ ~kept /\ id \in Unrelayable

(* Mistake: the rules of the version are taken as verified.                *)
RefusedUnverified(p, id, kept, version, nic_version) ==
  \/ ~kept /\ id \in p.timed_out
  \/ ~kept /\ id \in Unrelayable

(* The early returns of add_tx.                                            *)
RefusedAtOnce(p, id, kept, version, nic_version) ==
  \/ ~kept /\ id \in p.timed_out
  \/ version # nic_version /\ id \notin nic[version]
  \/ ~kept /\ id \in Unrelayable

(* nic_version is the fork version the caller has verified the non-input   *)
(* rules for, 0 for none.                                                  *)
add_tx(p, chain, id, relay, version, nic_version) ==
  LET kept == relay = relay_block
      q    == IF kept THEN p ELSE CacheInputs(p, chain, id)
      inputs_ok == IF kept THEN check_tx_inputs(chain, id)
                           ELSE id \in q.cache_ok
  IN  IF RefusedAtOnce(p, id, kept, version, nic_version) THEN Reject(p)
      ELSE IF ~kept /\ have_tx_keyimges_as_spent(p, id)
      THEN Reject(mark_double_spend(p, id))
      ELSE IF inputs_ok THEN AddValidInputs(q, id, relay)
      ELSE IF kept THEN AddInvalidInputs(q, id)
      ELSE Reject(q)

-----------------------------------------------------------------------------
(* The other methods.                                                      *)

(* Mistake: the entry of a transaction just broadcast is erased from the   *)
(* sorted container and not put back.                                      *)
set_relayed_loses(p, id, method) ==
  IF id \notin DOMAIN p.db THEN p
  ELSE [p EXCEPT !.db[id].method = upgrade_relay_method(@, method),
                 !.sorted = IF /\ ~ Broadcasted(p.db[id].method)
                               /\ Broadcasted(upgrade_relay_method(
                                                p.db[id].method, method))
                            THEN @ \ {id} ELSE @]

set_relayed(p, id, method) ==
  IF id \notin DOMAIN p.db THEN p
  ELSE [p EXCEPT !.db[id].method = upgrade_relay_method(@, method),
                 !.sorted = IF /\ ~ Broadcasted(p.db[id].method)
                               /\ Broadcasted(upgrade_relay_method(
                                                p.db[id].method, method))
                            THEN @ \cup {id} ELSE @]

(* Mistake: validate forgets that a transaction was kept by block.         *)
validate_tx_as_fluff(p, chain, id, meta, version) ==
  LET r == add_tx(take_txs(p, {id}), chain, id, relay_fluff, version, 0)
  IN  IF id \notin DOMAIN p.db THEN p
      ELSE IF r.ok /\ id \in DOMAIN r.pool.db
           THEN [r.pool EXCEPT !.db[id] = meta]
           ELSE r.pool

(* One turn of the loop of validate, for an entry <id, meta> it collected: *)
(* take it out, add it back under the rules of the new version, and        *)
(* restore the metadata, which throws if the pruning that ends add_tx      *)
(* evicted it.  An entry evicted by an earlier turn leaves take_tx and     *)
(* with it add_tx, on an empty transaction, without effect.                *)
validate_tx(p, chain, id, meta, version) ==
  LET r == add_tx(take_txs(p, {id}), chain, id, meta.method, version, 0)
  IN  IF id \notin DOMAIN p.db THEN p
      ELSE IF r.ok /\ id \in DOMAIN r.pool.db
           THEN [r.pool EXCEPT !.db[id] = meta]
           ELSE r.pool

(* init: the in-memory members rebuilt from the table, first the entries   *)
(* that are not kept by block, each of which must be alone on its images.  *)
InitSucceeds(db) ==
  \A s, t \in DOMAIN db :
    (s # t /\ Images(s) \cap Images(t) # {})
      => relay_block \in {db[s].method, db[t].method}

(* Mistake: the second pass is missing.                                    *)
PoolFromUnkept(db) ==
  [db |-> db,
   images |-> [ki \in KeyImage |-> {id \in DOMAIN db :
                 ki \in Images(id) /\ db[id].method # relay_block}],
   weight |-> WeightOf(DOMAIN db),
   sorted |-> DOMAIN db,
   timed_out |-> {}, cache_ok |-> {}, cache_bad |-> {}]

PoolFrom(db) ==
  [db |-> db,
   images |-> [ki \in KeyImage |-> {id \in DOMAIN db : ki \in Images(id)}],
   weight |-> WeightOf(DOMAIN db),
   sorted |-> DOMAIN db,
   timed_out |-> {}, cache_ok |-> {}, cache_bad |-> {}]

EmptyPool == PoolFrom(<<>>)

-----------------------------------------------------------------------------
(* What the modules above say of a pool.                                   *)

(* The weight is left to the properties that compare it with the pool.     *)
PoolType(p) ==
  /\ p \in [db : {p.db}, images : [KeyImage -> SUBSET Tx], weight : {p.weight},
            sorted : SUBSET Tx, timed_out : SUBSET Tx,
            cache_ok : SUBSET Tx, cache_bad : SUBSET Tx]
  /\ IsTable(p.db)

ImagesMatch(p) ==
  \A ki \in KeyImage : p.images[ki] = {id \in DOMAIN p.db : ki \in Images(id)}
=============================================================================
