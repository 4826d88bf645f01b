-------------------------------- MODULE Node --------------------------------
(***************************************************************************)
(* The daemon's core: the main chain, the alternative blocks and the       *)
(* transaction pool, and every handler of cryptonote::core and             *)
(* cryptonote::Blockchain that changes them (src/src/cryptonote_core/      *)
(* cryptonote_core.cpp, blockchain.cpp).                                   *)
(*                                                                         *)
(* All the handlers run under the pool lock, so they are atomic towards    *)
(* each other; those that loop over transactions or blocks are taken one   *)
(* turn at a time, with the rest of the loop in the variable work.  While  *)
(* work is not done no other handler is enabled.                           *)
(***************************************************************************)
EXTENDS BlockTemplate

CONSTANTS
  Genesis,
  BadMinerTx,    \* blocks that fail validate_miner_transaction
  prev,          \* Block \ {Genesis} -> parent block (prev_id)
  height,        \* Block -> height
  branch,        \* Block -> the chain that ends in it, from genesis
  cumulative_difficulty, \* Block -> total difficulty of the chain it ends
  ForkHeight,    \* height of the first block of the new hard fork version
  OldVersion, NewVersion,
  IncomingRelay, \* relay methods under which transactions arrive
  RelayedAs,     \* relay methods reported by on_transactions_relayed
  Ops            \* operator's and timer's handlers that may be called

ASSUME NodeAssumption ==
  /\ Genesis \in Block
  /\ prev \in [Block \ {Genesis} -> Block]
  /\ height \in [Block -> Nat]
  /\ height[Genesis] = 0
  /\ \A b \in Block \ {Genesis} : height[b] = height[prev[b]] + 1
  /\ branch \in [Block -> Seq(Block)]
  /\ branch[Genesis] = <<Genesis>>
  /\ \A b \in Block \ {Genesis} : branch[b] = Append(branch[prev[b]], b)
  /\ cumulative_difficulty \in [Block -> Nat]
  /\ \A b \in Block \ {Genesis} :
       cumulative_difficulty[b] > cumulative_difficulty[prev[b]]
  /\ BadMinerTx \subseteq Block \ {Genesis}
  /\ txs[Genesis] = <<>>
  /\ \A b \in Block : IsInjective(txs[b])
  /\ ForkHeight \in Nat
  /\ OldVersion \in Nat \ {0}
  /\ NewVersion \in Nat \ {0}
  /\ nic \in [{OldVersion, NewVersion} -> SUBSET Tx]
  /\ IncomingRelay \subseteq RelayMethod \ {relay_block}
  /\ RelayedAs \subseteq RelayMethod \ {relay_block}

VARIABLES
  pool,     \* m_tx_pool
  chain,    \* the main chain, a sequence of blocks; chain[i] has height i - 1
  alt,      \* the alternative blocks of the database
  invalid,  \* m_invalid_blocks
  batch,    \* the database as of batch_start, or NoBatch
  batch_ok, \* m_batch_success
  work,     \* what the handler holding the lock has left to do
  incoming  \* the transaction handle_incoming_tx is about to add, or NoTx

vars == <<pool, chain, alt, invalid, batch, batch_ok, work, incoming>>

(* work.script        commands of a chain switch or an alternative block   *)
(* work.returning     tx_hashes of a block that was popped or refused      *)
(* work.found         those of them that go back to the pool               *)
(* work.popped        the fork version before the pop under way, or 0      *)
(* work.revalidating  entries tx_memory_pool::validate has left to do      *)
(* work.supplement    pool_supplement of the alternative block             *)
(* work.old           disconnected_chain of the switch under way           *)
(* work.split         split_height: the length of the chain below it       *)
(* work.remove        alternative blocks to remove when it ends            *)
Cmd == [op : {"supplement", "store", "pop", "connect", "reconnect"},
        block : Block]

NoWork == [script |-> <<>>, returning |-> <<>>, found |-> {}, popped |-> 0,
           revalidating |-> <<>>, supplement |-> {}, old |-> <<>>,
           split |-> 0, remove |-> {}]

NoTx == [on |-> FALSE]

NoBatch == [on |-> FALSE, db |-> <<>>, chain |-> <<>>, alt |-> {}]

Idle == work = NoWork
Free == Idle /\ ~batch.on

-----------------------------------------------------------------------------
Top == Last(chain)

(* The chain without its top block.                                        *)
Front(c) == SubSeq(c, 1, Len(c) - 1)

OnMain(b) == b \in Range(chain)

(* get_current_hard_fork_version and get_ideal_hard_fork_version: every    *)
(* threshold in the tables of hardforks.cpp is 0, so the version is that   *)
(* of the height.  (Module HardFork has both, and the table of mainnet on  *)
(* which the two differ.)                                                  *)
VersionAt(h) == IF h >= ForkHeight THEN NewVersion ELSE OldVersion
Version == VersionAt(Len(chain))

have_tx_on_chain(id) == id \in TxsOf(chain)

have_block(b) == OnMain(b) \/ b \in alt \/ b \in invalid

(* build_alt_chain: the unbroken run of alternative blocks below a block.  *)
AltChain(b) ==
  LET c == branch[prev[b]]
      k == Min({i \in 1..(Len(c) + 1) : \A j \in i..Len(c) : c[j] \in alt})
  IN  SubSeq(c, k, Len(c))

ConnectsToMain(b) ==
  LET c == AltChain(b) IN
  IF c = <<>> THEN OnMain(prev[b])
  ELSE Len(chain) > height[c[1]] /\ OnMain(prev[c[1]])

Commands(op, blocks) == [i \in DOMAIN blocks |-> [op |-> op, block |-> blocks[i]]]

-----------------------------------------------------------------------------
(* handle_block_to_main_chain, on top of the chain.  The loop over         *)
(* tx_hashes takes each transaction from the pool, or else from the        *)
(* supplement, and stops at the first that fails.                          *)

InSupply(id, supplement) == id \in DOMAIN pool.db \cup supplement

(* Mistake: the inputs are not checked again.                              *)
PassesUnchecked(id, supplement) ==
  ~ have_tx_on_chain(id) /\ InSupply(id, supplement)

PassesLoop(id, supplement) ==
  /\ ~ have_tx_on_chain(id)
  /\ InSupply(id, supplement)
  /\ check_tx_inputs(chain, id)

(* The transactions the loop takes: one with wrong inputs has been taken,  *)
(* a missing one or one already on the chain has not.                      *)
Taken(b, supplement) ==
  {txs[b][i] : i \in {k \in DOMAIN txs[b] :
     /\ ~ have_tx_on_chain(txs[b][k])
     /\ InSupply(txs[b][k], supplement)
     /\ \A j \in 1..(k - 1) : PassesLoop(txs[b][j], supplement)}}

PassesAll(b, supplement) ==
  \A id \in Range(txs[b]) : PassesLoop(id, supplement)

(* BlockchainDB::add_block throws KEY_IMAGE_EXISTS when two transactions   *)
(* of the block spend the same key image.                                  *)
Collides(b) ==
  \E i, j \in DOMAIN txs[b] :
    i # j /\ Images(txs[b][i]) \cap Images(txs[b][j]) # {}

GoodBlock(b, supplement) ==
  PassesAll(b, supplement) /\ b \notin BadMinerTx /\ ~ Collides(b)

(* validate runs over the whole pool when the fork version changes.        *)
ToRevalidate(before, after, db) == IF before # after THEN db ELSE <<>>

(* Mistake: a block with missing transactions counts as invalid too.       *)
AnyFailure(b, taken) == TRUE

WrongInputs(b, taken) == \E id \in taken : ~ check_tx_inputs(chain, id)

(* The block enters the chain; the pool is revalidated when this changes   *)
(* the fork version.                                                       *)
AcceptBlock(b, rest) ==
  /\ pool' = on_blockchain_inc(take_txs(pool, Range(txs[b])))
  /\ chain' = Append(chain, b)
  /\ work' = [rest EXCEPT
       !.revalidating = ToRevalidate(Version, VersionAt(Len(chain) + 1),
                                     pool'.db)]
  /\ UNCHANGED <<invalid, batch_ok>>

(* The block is refused and return_txs_to_pool runs over what was taken    *)
(* from the pool.  It is remembered as invalid only for wrong inputs, and  *)
(* spoils the batch only when the database refused it.                     *)
RefuseBlock(b, supplement, rest) ==
  LET taken == Taken(b, supplement) IN
  /\ pool' = take_txs(pool, taken)
  /\ invalid' = IF WrongInputs(b, taken) THEN invalid \cup {b} ELSE invalid
  /\ batch_ok' = IF PassesAll(b, supplement) /\ b \notin BadMinerTx
                 THEN FALSE ELSE batch_ok
  /\ work' = [rest EXCEPT !.returning = txs[b],
                          !.found = taken \cap DOMAIN pool.db]
  /\ UNCHANGED chain

-----------------------------------------------------------------------------
(* The loops, one turn at a time.                                          *)

Inner == work.returning # <<>> \/ work.popped # 0 \/ work.revalidating # <<>>

(* add_tx with relay_method::block for one transaction of a block that was *)
(* popped or refused.                                                      *)
ReturnTx ==
  /\ work.returning # <<>>
  /\ LET id == Head(work.returning) IN
     pool' = IF id \in work.found
             THEN add_tx(pool, chain, id, relay_block, Version, Version).pool
             ELSE pool
  /\ work' = [work EXCEPT !.returning = Tail(@),
                          !.found = @ \ {Head(work.returning)}]
  /\ UNCHANGED <<chain, alt, invalid, batch, batch_ok, incoming>>

(* The end of pop_block_from_blockchain.                                   *)
BlockPopped ==
  /\ work.returning = <<>>
  /\ work.popped # 0
  /\ pool' = on_blockchain_dec(pool)
  /\ work' = [work EXCEPT !.popped = 0,
       !.revalidating = ToRevalidate(work.popped, Version, pool.db)]
  /\ UNCHANGED <<chain, alt, invalid, batch, batch_ok, incoming>>

(* A turn of the loop of tx_memory_pool::validate; the table is walked in  *)
(* the order of the txids, which is arbitrary.                             *)
Revalidate ==
  /\ work.returning = <<>>
  /\ work.popped = 0
  /\ \E id \in DOMAIN work.revalidating :
       /\ pool' = validate_tx(pool, chain, id, work.revalidating[id], Version)
       /\ work' = [work EXCEPT !.revalidating = Restrict(@, DOMAIN @ \ {id})]
  /\ UNCHANGED <<chain, alt, invalid, batch, batch_ok, incoming>>

-----------------------------------------------------------------------------
(* The commands of work.script.                                            *)

Command(op) == ~Inner /\ work.script # <<>> /\ Head(work.script).op = op
Rest == [work EXCEPT !.script = Tail(@)]

(* Mistake: only the pool is asked for the transaction.                    *)
KnownToPool(id) == have_tx(pool, id)

KnownTx(id) == have_tx(pool, id) \/ have_tx_on_chain(id)

(* handle_alternative_block: a transaction of the supplement enters the    *)
(* pool unless the pool shows it or the chain has it; a refusal ends the   *)
(* handler.                                                                *)
AddSupplement ==
  /\ Command("supplement")
  /\ \E id \in work.supplement :
       LET b == Head(work.script).block
           v == VersionAt(height[b])
           r == add_tx(pool, chain, id, relay_block, v, v)
       IN  /\ pool' = IF KnownTx(id) THEN pool ELSE r.pool
           /\ work' = IF KnownTx(id) \/ r.ok
                      THEN [work EXCEPT !.supplement = @ \ {id}]
                      ELSE NoWork
  /\ UNCHANGED <<chain, alt, invalid, batch, batch_ok, incoming>>

SupplementDone ==
  /\ Command("supplement")
  /\ work.supplement = {}
  /\ work' = Rest
  /\ UNCHANGED <<pool, chain, alt, invalid, batch, batch_ok, incoming>>

(* Mistake: the longer chain wins.                                         *)
IsLonger(b) == height[Top] < height[b]

HasMoreWork(b) == cumulative_difficulty[Top] < cumulative_difficulty[b]

(* handle_alternative_block stores the block, and switches to its chain    *)
(* when that is heavier than the main chain.                               *)
StoreAlt ==
  /\ Command("store")
  /\ LET b    == Head(work.script).block
         c    == Append(AltChain(b), b)
         old  == SubSeq(chain, height[c[1]] + 1, Len(chain))
     IN  IF ~ ConnectsToMain(b) \/ b \in alt THEN alt' = alt /\ work' = Rest
         ELSE /\ alt' = alt \cup {b}
              /\ work' =
                   IF HasMoreWork(b)
                   THEN [Rest EXCEPT
                          !.script = Commands("pop", old)
                                       \o (Commands("connect", c)
                                             \o Commands("store", old)),
                          !.old = old, !.split = height[c[1]],
                          !.remove = Range(c)]
                   ELSE Rest
  /\ UNCHANGED <<pool, chain, invalid, batch, batch_ok, incoming>>

(* pop_block_from_blockchain, up to the return of the transactions.        *)
PopBlock ==
  /\ Command("pop")
  /\ chain' = Front(chain)
  /\ work' = [Rest EXCEPT !.returning = txs[Top], !.found = Range(txs[Top]),
                          !.popped = Version]
  /\ UNCHANGED <<pool, alt, invalid, batch, batch_ok, incoming>>

(* Mistake: the last block of the original chain is forgotten.             *)
RollbackShort(connected) ==
  Commands("pop", connected) \o Commands("reconnect", Front(work.old))

Rollback(connected) ==
  Commands("pop", connected) \o Commands("reconnect", work.old)

(* switch_to_alternative_blockchain: a block of the alternative chain.     *)
(* When it fails, the blocks connected so far are popped, the old ones put *)
(* back, and it and the blocks after it are removed.                       *)
Connect ==
  /\ Command("connect")
  /\ LET b == Head(work.script).block
         connected == SubSeq(chain, work.split + 1, Len(chain))
     IN  IF GoodBlock(b, {}) THEN AcceptBlock(b, Rest)
         ELSE RefuseBlock(b, {},
                [Rest EXCEPT !.script = Rollback(connected),
                             !.remove = @ \ Range(connected)])
  /\ UNCHANGED <<alt, batch, incoming>>

(* Mistake: a block that fails is tried again.                             *)
ReconnectAgain ==
  /\ Command("reconnect")
  /\ LET b == Head(work.script).block
     IN  IF GoodBlock(b, {}) THEN AcceptBlock(b, Rest)
                             ELSE RefuseBlock(b, {}, work)
  /\ UNCHANGED <<alt, batch, incoming>>

(* rollback_blockchain_switching: a block of the original chain.           *)
Reconnect ==
  /\ Command("reconnect")
  /\ LET b == Head(work.script).block
     IN  IF GoodBlock(b, {}) THEN AcceptBlock(b, Rest)
         ELSE RefuseBlock(b, {}, [Rest EXCEPT !.script = <<>>])
  /\ UNCHANGED <<alt, batch, incoming>>

(* The last part of switch_to_alternative_blockchain.                      *)
SwitchDone ==
  /\ ~Inner
  /\ work.script = <<>>
  /\ work # NoWork
  /\ alt' = alt \ work.remove
  /\ work' = NoWork
  /\ UNCHANGED <<pool, chain, invalid, batch, batch_ok, incoming>>

-----------------------------------------------------------------------------
(* The handlers.                                                           *)

(* core::handle_incoming_tx holds m_incoming_tx_lock, and the pool lock    *)
(* only within the calls it makes: add_new_tx asks the pool for the        *)
(* transaction, then the chain, reads the fork version, and then adds it.  *)
HandleIncomingTx(id, relay) ==
  /\ Free /\ incoming = NoTx
  /\ ~ have_tx(pool, id)
  /\ incoming' = [on |-> TRUE, id |-> id, relay |-> relay, version |-> 0]
  /\ UNCHANGED <<pool, chain, alt, invalid, batch, batch_ok, work>>

LookOnChain ==
  /\ Free /\ incoming # NoTx /\ incoming.version = 0
  /\ incoming' = IF have_tx_on_chain(incoming.id) THEN NoTx
                 ELSE [incoming EXCEPT !.version = Version]
  /\ UNCHANGED <<pool, chain, alt, invalid, batch, batch_ok, work>>

AddNewTx ==
  /\ Free /\ incoming # NoTx /\ incoming.version # 0
  /\ pool' = add_tx(pool, chain, incoming.id, incoming.relay,
                    incoming.version, 0).pool
  /\ incoming' = NoTx
  /\ UNCHANGED <<chain, alt, invalid, batch, batch_ok, work>>

(* core::on_transactions_relayed.                                          *)
OnTransactionsRelayed(id, method) ==
  /\ Free /\ incoming = NoTx
  /\ pool' = set_relayed(pool, id, method)
  /\ UNCHANGED <<chain, alt, invalid, batch, batch_ok, work, incoming>>

(* prepare_handle_incoming_blocks, under m_incoming_tx_lock.               *)
PrepareIncomingBlocks ==
  /\ Free /\ incoming = NoTx
  /\ batch' = [on |-> TRUE, db |-> pool.db, chain |-> chain, alt |-> alt]
  /\ batch_ok' = TRUE
  /\ UNCHANGED <<pool, chain, alt, invalid, work, incoming>>

(* Blockchain::add_new_block, with the transactions the sender attached.   *)
AddNewBlock(b, supplement) ==
  /\ Idle /\ batch.on /\ batch_ok
  /\ ~ have_block(b)
  /\ supplement \subseteq nic[VersionAt(height[b])]
  /\ IF prev[b] = Top
     THEN IF GoodBlock(b, supplement) THEN AcceptBlock(b, NoWork)
                                      ELSE RefuseBlock(b, supplement, NoWork)
     ELSE /\ ConnectsToMain(b)
          /\ work' = [NoWork EXCEPT
                        !.script = <<[op |-> "supplement", block |-> b],
                                     [op |-> "store", block |-> b]>>,
                        !.supplement = supplement]
          /\ UNCHANGED <<pool, chain, invalid, batch_ok>>
  /\ UNCHANGED <<alt, batch, incoming>>

(* cleanup_handle_incoming_blocks: batch_stop, or batch_abort, which takes *)
(* the database back but none of the members in memory.                    *)
CleanupIncomingBlocks ==
  /\ Idle /\ batch.on
  /\ IF batch_ok THEN UNCHANGED <<pool, chain, alt>>
     ELSE /\ pool' = [pool EXCEPT !.db = batch.db]
          /\ chain' = batch.chain
          /\ alt' = batch.alt
  /\ batch' = NoBatch
  /\ UNCHANGED <<invalid, batch_ok, work, incoming>>

(* Mistake: the genesis block can be popped.                               *)
PopBlocksAll ==
  /\ Free /\ "pop_blocks" \in Ops
  /\ Len(chain) > 0
  /\ work' = [NoWork EXCEPT !.script = <<[op |-> "pop", block |-> Top]>>]
  /\ UNCHANGED <<pool, chain, alt, invalid, batch, batch_ok, incoming>>

(* Blockchain::pop_blocks, one block.                                      *)
PopBlocks ==
  /\ Free /\ "pop_blocks" \in Ops
  /\ Len(chain) > 1
  /\ work' = [NoWork EXCEPT !.script = <<[op |-> "pop", block |-> Top]>>]
  /\ UNCHANGED <<pool, chain, alt, invalid, batch, batch_ok, incoming>>

(* Blockchain::flush_txes_from_pool, one transaction.                      *)
FlushTx(id) ==
  /\ Free /\ "flush_txpool" \in Ops
  /\ pool' = take_txs(pool, {id})
  /\ UNCHANGED <<chain, alt, invalid, batch, batch_ok, work, incoming>>

FlushInvalidBlocks ==
  /\ Free /\ "flush_invalid" \in Ops
  /\ invalid' = {}
  /\ UNCHANGED <<pool, chain, alt, batch, batch_ok, work, incoming>>

(* Blockchain::create_block_template.                                      *)
CreateBlockTemplate ==
  /\ Free /\ "template" \in Ops
  /\ pool' = AfterTemplate(pool, chain,
               fill_block_template(pool, chain, Version).tested)
  /\ UNCHANGED <<chain, alt, invalid, batch, batch_ok, work, incoming>>

(* Time passes for a transaction of the pool.                              *)
Age(id) ==
  /\ Free /\ "age" \in Ops
  /\ id \in DOMAIN pool.db
  /\ pool.db[id].age < 2
  /\ pool' = [pool EXCEPT !.db[id].age = @ + 1]
  /\ UNCHANGED <<chain, alt, invalid, batch, batch_ok, work, incoming>>

RemoveStuckTransactions ==
  /\ Free /\ "age" \in Ops
  /\ pool' = remove_stuck_transactions(pool)
  /\ UNCHANGED <<chain, alt, invalid, batch, batch_ok, work, incoming>>

(* The daemon stops, or crashes, and starts again: what is in memory is    *)
(* lost and rebuilt from the database.  A crash inside a batch leaves the  *)
(* database as of its start, from which a restart was possible as well.    *)
Restart ==
  /\ Free /\ "restart" \in Ops
  /\ InitSucceeds(pool.db)
  /\ pool' = PoolFrom(pool.db)
  /\ invalid' = {}
  /\ incoming' = NoTx
  /\ UNCHANGED <<chain, alt, batch, batch_ok, work>>

-----------------------------------------------------------------------------
Init ==
  /\ pool = EmptyPool
  /\ chain = <<Genesis>>
  /\ alt = {}
  /\ invalid = {}
  /\ batch = NoBatch
  /\ batch_ok = TRUE
  /\ work = NoWork
  /\ incoming = NoTx

WorkStep ==
  \/ ReturnTx \/ BlockPopped \/ Revalidate
  \/ AddSupplement \/ SupplementDone \/ StoreAlt
  \/ PopBlock \/ Connect \/ Reconnect \/ SwitchDone

Next ==
  \/ WorkStep
  \/ \E id \in Tx, relay \in IncomingRelay : HandleIncomingTx(id, relay)
  \/ LookOnChain
  \/ AddNewTx
  \/ \E id \in Tx, method \in RelayedAs : OnTransactionsRelayed(id, method)
  \/ PrepareIncomingBlocks
  \/ \E b \in Block \ {Genesis} :
       \E supplement \in SUBSET Range(txs[b]) : AddNewBlock(b, supplement)
  \/ CleanupIncomingBlocks
  \/ PopBlocks
  \/ \E id \in Tx : FlushTx(id)
  \/ FlushInvalidBlocks
  \/ CreateBlockTemplate
  \/ \E id \in Tx : Age(id)
  \/ RemoveStuckTransactions
  \/ Restart

Spec == Init /\ [][Next]_vars

(* A handler that holds the lock runs to its end.                          *)
FairSpec == Spec /\ WF_vars(WorkStep)

-----------------------------------------------------------------------------
(* Properties.                                                             *)

JobType(w) ==
  /\ w \in [script : Seq(Cmd), returning : Seq(Tx), found : SUBSET Tx,
            popped : Nat, revalidating : {w.revalidating},
            supplement : SUBSET Tx, old : Seq(Block),
            split : Nat, remove : SUBSET Block]
  /\ IsTable(w.revalidating)

BatchType(t) ==
  /\ t \in [on : BOOLEAN, db : {t.db}, chain : Seq(Block), alt : SUBSET Block]
  /\ IsTable(t.db)

IncomingTx == [on : {TRUE}, id : Tx, relay : RelayMethod, version : Nat]

(* Every variable has its type.                                            *)
TypeOK ==
  /\ PoolType(pool)
  /\ chain \in Seq(Block) \ {<<>>}
  /\ alt \subseteq Block \ {Genesis}
  /\ invalid \subseteq Block \ {Genesis}
  /\ BatchType(batch)
  /\ batch_ok \in BOOLEAN
  /\ JobType(work)
  /\ incoming \in IncomingTx \cup {NoTx}

(* m_spent_key_images records for every key image exactly the transactions *)
(* of the pool that spend it, through every add, removal, block and reorg: *)
(* no entry outlives its transaction and none is missing.                  *)
KeyImagesMatchPool == ImagesMatch(pool)

(* m_txs_by_fee_and_receive_time lists exactly the transactions of the     *)
(* pool: one that is missing would never be mined or pruned.               *)
SortedMatchesPool == pool.sorted = DOMAIN pool.db

(* tx_memory_pool::init would succeed on the table as it is, so the daemon *)
(* can always be restarted: of two pool transactions that spend the same   *)
(* key image, one is kept by block.                                        *)
RestartSucceeds == InitSucceeds(pool.db)

(* m_txpool_weight is never below the weight of the pool, so that no       *)
(* removal meets "Underflow in txpool weight" and pruning is not put off.  *)
WeightCoversPool == pool.weight >= WeightOf(DOMAIN pool.db)

(* m_txpool_weight is the weight of the pool.                              *)
WeightExact == pool.weight = WeightOf(DOMAIN pool.db)

(* m_input_cache is never stale: outside of a pop, a cached verdict is the *)
(* one check_tx_inputs would give on the chain as it is now.               *)
CacheFresh ==
  work.popped = 0 =>
    /\ \A id \in pool.cache_ok : check_tx_inputs(chain, id)
    /\ \A id \in pool.cache_bad : ~ check_tx_inputs(chain, id)

(* last_failed_id only ever names a block on whose chain the inputs really *)
(* fail, also after the chain was switched away from it and back: no valid *)
(* transaction is skipped by the template because of it.                   *)
LastFailedSound ==
  \A id \in DOMAIN pool.db :
    LET b == pool.db[id].last_failed_id IN
    b # NoBlock => ~ check_tx_inputs(branch[b], id)

(* A transaction that timed out comes back only kept by block.             *)
TimedOutOnlyKept ==
  \A id \in pool.timed_out \cap DOMAIN pool.db : KeptByBlock(pool, id)

(* The pool and the chain share no transaction, so that a block made from  *)
(* the pool never repeats one.                                             *)
PoolChainDisjoint == DOMAIN pool.db \cap TxsOf(chain) = {}

(* The main chain is a chain of blocks each of whose transactions had      *)
(* valid inputs where it stands, spends nothing another one spends, and    *)
(* appears once.                                                           *)
ChainValid ==
  /\ chain = branch[Top]
  /\ \A i \in DOMAIN chain :
       LET below == SubSeq(chain, 1, i - 1) IN
       /\ ~ Collides(chain[i])
       /\ \A id \in Range(txs[chain[i]]) :
            check_tx_inputs(below, id) /\ id \notin TxsOf(below)

(* A block is remembered as invalid only if one of its transactions fails  *)
(* on the chain the block builds on: add_new_block refuses it for ever.    *)
InvalidBlocksAreInvalid ==
  \A b \in invalid :
    \E id \in Range(txs[b]) : ~ check_tx_inputs(branch[prev[b]], id)

(* While no operator pops blocks, no known alternative block has more work *)
(* than the main chain once the handlers are done.                         *)
HeaviestChain ==
  Idle => \A b \in alt :
            cumulative_difficulty[b] <= cumulative_difficulty[Top]

EndsWith(c, s) ==
  Len(s) <= Len(c) /\ SubSeq(c, Len(c) - Len(s) + 1, Len(c)) = s

SwitchEnds == work.script = <<>> /\ ~Inner /\ work.old # <<>>

(* A switch ends with the whole alternative chain in place, or with every  *)
(* block of the original chain put back.                                   *)
SwitchIsAtomic ==
  SwitchEnds => \/ work.remove \subseteq Range(chain)
                \/ EndsWith(chain, work.old)

(* A switch loses no transaction of the blocks it disconnects: each is in  *)
(* the pool or on the chain when the switch ends, if its rules are those   *)
(* of every fork version.                                                  *)
SwitchLosesNoTx ==
  SwitchEnds =>
    \A id \in TxsOf(work.old) :
      id \in nic[OldVersion] \cap nic[NewVersion]
        => id \in DOMAIN pool.db \cup TxsOf(chain)

(* A block made of what fill_block_template returns passes every test of   *)
(* handle_block_to_main_chain on the pool and chain as they are.           *)
TemplateMineable ==
  Free =>
    LET t == fill_block_template(pool, chain, Version)
        S == Range(t.hashes)
    IN  /\ \A id \in S : PassesLoop(id, {})
        /\ \A s1, s2 \in S : s1 # s2 => Images(s1) \cap Images(s2) = {}
        /\ t.weight <= MaxTotalWeight(Version)
        /\ t.weight = WeightOf(S)

(* The template of version 5 and later pays at least what an empty block   *)
(* would, up to one rounding to a float however many transactions were     *)
(* taken, and what it expects is the reward of its weight and its fees.    *)
TemplatePays ==
  Free /\ Version >= 5 =>
    LET t == fill_block_template(pool, chain, Version) IN
    /\ t.best >= template_accept_threshold(get_block_reward(0))
    /\ t.best = get_block_reward(t.weight) + t.fee

(* When the pool is over its limit there is nothing left to evict: all its *)
(* transactions but the one of the highest fee rate are kept by block.     *)
PoolBounded ==
  pool.weight > MaxPoolWeight =>
    \A id \in DOMAIN pool.db :
      \/ KeptByBlock(pool, id)
      \/ \A other \in DOMAIN pool.db : ~ HigherRate(other, id)

(* When validate has run after a change of the fork version, the pool      *)
(* holds only what the new version allows: return_txs_to_pool counts on    *)
(* it and does not verify these rules again.                               *)
PurgedAtFork ==
  [][work.revalidating # <<>> /\ work'.revalidating = <<>>
       => DOMAIN pool'.db \subseteq nic[Version]]_vars

(* No step makes a transaction more private than it was: once broadcast it *)
(* never goes back to the stem or local state while it stays in the pool.  *)
RelayNeverDowngraded ==
  [][\A id \in DOMAIN pool.db \cap DOMAIN pool'.db :
       pool.db[id].method <= pool'.db[id].method]_vars

(* Whatever a handler started to do with blocks and the pool comes to an   *)
(* end: no reorganisation goes on for ever.                                *)
HandlersTerminate == ~Idle ~> Idle
=============================================================================
