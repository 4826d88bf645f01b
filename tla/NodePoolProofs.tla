--------------------------- MODULE NodePoolProofs ---------------------------
(***************************************************************************)
(* While no block spends one key image twice, the pool's table and its     *)
(* members in memory agree, the table is always one the daemon can start   *)
(* from, no transaction is made more private than it was, the weight that  *)
(* is kept covers the pool, and the pool stays within its limit.           *)
(***************************************************************************)
EXTENDS NodeProofs

(* The hypothesis.  Without it BlockchainDB::add_block can fail, and the   *)
(* batch that is then aborted takes the table back but not the memory: run *)
(* BatchAbort is the counterexample.                                       *)
NoClash == \A b \in Block : ~ Collides(b)

Kept(p) == \A id \in p.timed_out \cap DOMAIN p.db : KeptByBlock(p, id)

Rises(p, q) == \A id \in DOMAIN p.db \cap DOMAIN q.db :
                 p.db[id].method <= q.db[id].method

(* The inductive invariant.  validate works from a copy of the metadata:   *)
(* while it runs the copy must agree with the table, and nothing else may  *)
(* be returning transactions.                                              *)
PoolInv ==
  /\ Consistent(pool)
  /\ Kept(pool)
  /\ batch_ok
  /\ work.returning # <<>> => DOMAIN work.revalidating = {}
  /\ \A id \in DOMAIN work.revalidating \cap DOMAIN pool.db :
       work.revalidating[id].method = pool.db[id].method

-----------------------------------------------------------------------------
(* Lemmas.                                                                 *)

(* add_tx and set_relayed, on a transaction they may add.                  *)
LEMMA ExtendsKept ==
  ASSUME NEW p, PoolType(p), Kept(p), NEW q, PoolType(q), NEW id, NEW relay,
         Extends(p, q, id, relay),
         relay = relay_block \/ id \notin p.timed_out \/ id \in DOMAIN p.db \/ q = p
  PROVE  Kept(q) /\ Rises(p, q)
<1>1. Rises(p, q)
  BY DEF Extends, Rises
<1>2. ASSUME NEW t \in q.timed_out \cap DOMAIN q.db
      PROVE  KeptByBlock(q, t)
  <2>1. t \in p.timed_out /\ q.db[t].method \in RelayMethod
    BY MethodType DEF Extends
  <2>2. CASE t \in DOMAIN p.db
    <3>1. p.db[t].method = relay_block /\ p.db[t].method <= q.db[t].method
      BY <2>1, <2>2 DEF Kept, KeptByBlock, Extends
    <3> QED BY <2>1, <3>1 DEF KeptByBlock, relay_block, RelayMethod
  <2>3. CASE t \notin DOMAIN p.db
    <3>1. t = id /\ q.db[t].method = relay /\ q # p
      BY <2>3 DEF Extends
    <3> QED BY <2>1, <2>3, <3>1 DEF KeptByBlock
  <2> QED BY <2>2, <2>3
<1> QED BY <1>1, <1>2 DEF Kept

(* A step that removes rows and leaves the methods of the others.          *)
LEMMA SameKept ==
  ASSUME NEW p, PoolType(p), Kept(p), NEW q,
         DOMAIN q.db \subseteq DOMAIN p.db,
         \A t \in DOMAIN q.db : q.db[t].method = p.db[t].method,
         q.timed_out \cap DOMAIN q.db \subseteq p.timed_out
  PROVE  Kept(q) /\ Rises(p, q)
<1>1. Kept(q)
  BY DEF Kept, KeptByBlock
<1>2. \A t \in DOMAIN p.db : p.db[t].method \in Int
  BY MethodType
<1> QED BY <1>1, <1>2 DEF Rises

(* Doing nothing lowers no method.                                         *)
LEMMA RisesRefl ==
  ASSUME NEW p, PoolType(p)
  PROVE  Rises(p, p)
  BY MethodType DEF Rises

(* add_tx as the handlers call it.                                         *)
LEMMA AddTxKeeps ==
  ASSUME NEW p, PoolType(p), Consistent(p), Kept(p), NEW c, NEW id \in Tx,
         NEW relay \in RelayMethod, NEW version, NEW nic_version
  PROVE  LET q == add_tx(p, c, id, relay, version, nic_version).pool IN
         Consistent(q) /\ Kept(q) /\ Rises(p, q)
<1> DEFINE q == add_tx(p, c, id, relay, version, nic_version).pool
<1>1. /\ PoolType(q) /\ Consistent(q) /\ Extends(p, q, id, relay)
      /\ relay # relay_block /\ id \in p.timed_out => q = p
  BY AddTxLemma
<1> HIDE DEF q
<1>2. Kept(q) /\ Rises(p, q)
  BY <1>1, ExtendsKept
<1> QED BY <1>1, <1>2 DEF q

(* take_tx lowers no method.                                               *)
LEMMA TakeKeeps ==
  ASSUME NEW p, PoolType(p), Consistent(p), Kept(p), NEW S
  PROVE  LET q == take_txs(p, S) IN
         PoolType(q) /\ Consistent(q) /\ Kept(q) /\ Rises(p, q)
<1> DEFINE q == take_txs(p, S)
<1>1. PoolType(q) /\ Consistent(q) /\ Shrinks(p, q) /\ q.timed_out = p.timed_out
  BY TakeLemma
<1> HIDE DEF q
<1>2. Kept(q) /\ Rises(p, q)
  BY <1>1, SameKept DEF Shrinks
<1> QED BY <1>1, <1>2 DEF q

(* A turn of validate with a copy of the metadata that is up to date.      *)
LEMMA ValidateKeeps ==
  ASSUME NEW p, PoolType(p), Consistent(p), Kept(p), NEW c, NEW id \in Tx,
         NEW meta \in Meta, id \in DOMAIN p.db => meta.method = p.db[id].method,
         NEW version, NEW q, q = validate_tx(p, c, id, meta, version)
  PROVE  Consistent(q) /\ Kept(q) /\ Rises(p, q) /\ Shrinks(p, q)
<1> DEFINE r == validate_tx(p, c, id, meta, version)
<1>1. /\ Consistent(r)
      /\ DOMAIN r.db \subseteq DOMAIN p.db
      /\ \A t \in DOMAIN r.db \ {id} : r.db[t].method = p.db[t].method
      /\ id \in DOMAIN r.db => r.db[id].method = meta.method
      /\ r.timed_out = p.timed_out
  <2>1. Consistent(r)
    BY ValidateLemma
  <2>2. DOMAIN r.db \subseteq DOMAIN p.db
    BY ValidateLemma
  <2>3. \A t \in DOMAIN r.db \ {id} : r.db[t].method = p.db[t].method
    BY ValidateLemma
  <2>4. id \in DOMAIN r.db => r.db[id].method = meta.method
    BY ValidateLemma
  <2>5. r.timed_out = p.timed_out
    BY ValidateLemma
  <2> QED BY <2>1, <2>2, <2>3, <2>4, <2>5
<1> HIDE DEF r
<1>2. \A t \in DOMAIN r.db : r.db[t].method = p.db[t].method
  BY <1>1
<1>3. Kept(r) /\ Rises(p, r)
  BY <1>1, <1>2, SameKept
<1> QED BY <1>1, <1>2, <1>3 DEF r, Shrinks

(* A handler that is done returns and revalidates nothing.                 *)
LEMMA NoWorkFacts ==
  NoWork.returning = <<>> /\ NoWork.revalidating = <<>>
  BY DEF NoWork
-----------------------------------------------------------------------------
(* Every step keeps the invariant.                                         *)

(* The first state has the invariant.                                      *)
LEMMA InitPool == Init => PoolInv
<1> SUFFICES ASSUME Init PROVE PoolInv
  OBVIOUS
<1>1. Consistent(pool) /\ DOMAIN pool.db = {}
  BY EmptyTable, PoolFromLemma DEF Init, EmptyPool, InitSucceeds
<1> QED BY <1>1, NoWorkFacts DEF Init, PoolInv, Kept

(* A step of a handler that returns and revalidates nothing.               *)
LEMMA QuietPool ==
  ASSUME PoolInv, Consistent(pool'), Kept(pool'), batch_ok',
         work'.revalidating = <<>>
  PROVE  PoolInv'
  BY DEF PoolInv

(* A handler that starts and ends within one step.                         *)
LEMMA SameJob ==
  ASSUME PoolInv, Consistent(pool'), Kept(pool'), batch_ok', Idle, Idle'
  PROVE  PoolInv'
  BY QuietPool, NoWorkFacts DEF Idle

(* A step that leaves the pool alone.                                      *)
LEMMA SamePool ==
  ASSUME TypeInv, PoolInv, pool' = pool
  PROVE  Consistent(pool') /\ Kept(pool') /\ Rises(pool, pool')
  BY RisesRefl DEF TypeInv, PoolInv

(* The record a handler works with, whatever is in its fields.             *)
Shape(w) == w \in [script : {w.script}, returning : {w.returning},
                   found : {w.found}, popped : {w.popped},
                   revalidating : {w.revalidating},
                   supplement : {w.supplement}, old : {w.old},
                   split : {w.split}, remove : {w.remove}]

(* The type gives the shape.                                               *)
LEMMA ShapeOfJob ==
  ASSUME NEW w, JobType(w)
  PROVE  Shape(w)
  BY DEF JobType, Shape

(* The updates of the record that replace several fields.                  *)
LEMMA ShapeKept ==
  ASSUME NEW w, Shape(w), NEW s, NEW o, NEW n, NEW r
  PROVE  LET a == [w EXCEPT !.script = s, !.old = o, !.split = n, !.remove = r]
             b == [w EXCEPT !.script = s, !.remove = r]
             c == [w EXCEPT !.script = s]
         IN  /\ a.revalidating = w.revalidating
             /\ Shape(b) /\ b.revalidating = w.revalidating
             /\ Shape(c) /\ c.revalidating = w.revalidating
  BY DEF Shape

(* A command of the script runs when nothing is being returned or          *)
(* revalidated.                                                            *)
LEMMA CommandFacts ==
  ASSUME TypeInv, NEW op, Command(op)
  PROVE  /\ work.returning = <<>> /\ work.revalidating = <<>>
         /\ JobType(work) /\ Shape(Rest)
         /\ Rest.returning = <<>> /\ Rest.revalidating = <<>>
<1>1. JobType(work) /\ work.returning = <<>> /\ work.revalidating = <<>>
  BY DEF TypeInv, GoodWork, Command, Inner
<1>2. JobType(Rest)
  BY RestType DEF GoodWork, Command
<1>3. Rest.returning = <<>> /\ Rest.revalidating = <<>>
  BY <1>1 DEF Rest, JobType
<1> QED BY <1>1, <1>2, <1>3, ShapeOfJob

(* A block that enters the chain: validate starts from a fresh copy.       *)
LEMMA AcceptPool ==
  ASSUME TypeInv, PoolInv, NEW b, NEW rest, Shape(rest), AcceptBlock(b, rest),
         rest.returning = <<>>
  PROVE  PoolInv' /\ Rises(pool, pool')
<1> DEFINE q == take_txs(pool, Range(txs[b]))
           t == ToRevalidate(Version, VersionAt(Len(chain) + 1), pool'.db)
<1>1. /\ PoolType(q) /\ Consistent(q) /\ Kept(q) /\ Rises(pool, q)
  BY TakeKeeps DEF TypeInv, PoolInv
<1>2. pool' = ClearCache(q)
  BY DEF AcceptBlock, on_blockchain_inc
<1> HIDE DEF q
<1>3. Consistent(pool') /\ pool'.db = q.db /\ pool'.timed_out = q.timed_out
  BY <1>1, <1>2, ClearCacheLemma
<1>4. Kept(pool') /\ Rises(pool, pool')
  BY <1>1, <1>3 DEF Kept, KeptByBlock, Rises
<1>5. t = pool'.db \/ t = <<>>
  BY DEF ToRevalidate
<1>6. work' = [rest EXCEPT !.revalidating = t] /\ batch_ok'
  BY DEF AcceptBlock, PoolInv
<1> HIDE DEF t
<1>7. work'.revalidating = t /\ work'.returning = <<>>
  BY <1>6 DEF Shape
<1> QED BY <1>3, <1>4, <1>5, <1>6, <1>7 DEF PoolInv

(* A block that is refused: under the hypothesis, never by the database.   *)
LEMMA RefusePool ==
  ASSUME NoClash, TypeInv, PoolInv, NEW b \in Block, NEW supplement, NEW rest,
         Shape(rest), RefuseBlock(b, supplement, rest),
         ~ GoodBlock(b, supplement), rest.revalidating = <<>>
  PROVE  PoolInv' /\ Rises(pool, pool')
<1> DEFINE taken == Taken(b, supplement)
<1>1. Consistent(pool') /\ Kept(pool') /\ Rises(pool, pool')
  BY TakeKeeps DEF TypeInv, PoolInv, RefuseBlock
<1>2. batch_ok'
  BY DEF GoodBlock, NoClash, RefuseBlock, PoolInv
<1>3. work' = [rest EXCEPT !.returning = txs[b], !.found = taken \cap DOMAIN pool.db]
  BY DEF RefuseBlock
<1> HIDE DEF taken
<1>4. work'.revalidating = <<>>
  BY <1>3 DEF Shape
<1> QED BY <1>1, <1>2, <1>4, QuietPool

(* return_txs_to_pool, one transaction: it is kept by block, so that it    *)
(* may have timed out.                                                     *)
LEMMA ReturnTxPool ==
  ASSUME TypeInv, PoolInv, ReturnTx
  PROVE  PoolInv' /\ Rises(pool, pool')
<1> DEFINE id == Head(work.returning)
<1>1. JobType(work) /\ work.returning # <<>>
  BY DEF TypeInv, GoodWork, ReturnTx
<1>2. id \in Tx
  BY <1>1 DEF JobType
<1>3. \/ pool' = pool
      \/ pool' = add_tx(pool, chain, id, relay_block, Version, Version).pool
  BY DEF ReturnTx
<1>4. work'.revalidating = work.revalidating /\ DOMAIN work.revalidating = {}
  BY <1>1 DEF ReturnTx, PoolInv, JobType
<1> HIDE DEF id
<1>5. Consistent(pool') /\ Kept(pool') /\ Rises(pool, pool')
  <2>1. CASE pool' = pool
    BY <2>1, SamePool
  <2>2. CASE pool' = add_tx(pool, chain, id, relay_block, Version, Version).pool
    <3>1. relay_block \in RelayMethod
      BY DEF relay_block, RelayMethod
    <3> QED BY <1>2, <2>2, <3>1, AddTxKeeps DEF TypeInv, PoolInv
  <2> QED BY <1>3, <2>1, <2>2
<1>6. batch_ok'
  BY DEF ReturnTx, PoolInv
<1> QED BY <1>4, <1>5, <1>6 DEF PoolInv

(* The end of pop_block_from_blockchain: validate starts from a fresh      *)
(* copy.                                                                   *)
LEMMA BlockPoppedPool ==
  ASSUME TypeInv, PoolInv, BlockPopped
  PROVE  PoolInv' /\ Rises(pool, pool')
<1> DEFINE t == ToRevalidate(work.popped, Version, pool.db)
<1>1. /\ Consistent(pool') /\ pool'.db = pool.db
      /\ pool'.timed_out = pool.timed_out
  BY ClearCacheLemma DEF BlockPopped, on_blockchain_dec, TypeInv, PoolInv
<1>2. Kept(pool') /\ Rises(pool, pool')
  BY <1>1, SameKept DEF TypeInv, PoolInv
<1>3. t = pool.db \/ t = <<>>
  BY DEF ToRevalidate
<1>4. /\ work' = [work EXCEPT !.popped = 0, !.revalidating = t]
      /\ work.returning = <<>> /\ JobType(work) /\ batch_ok'
  BY DEF BlockPopped, TypeInv, GoodWork, PoolInv
<1> HIDE DEF t
<1>5. work'.revalidating = t /\ work'.returning = <<>>
  BY <1>4 DEF JobType
<1> QED BY <1>1, <1>2, <1>3, <1>4, <1>5 DEF PoolInv

(* A turn of validate: the copy and the table stay in agreement for the    *)
(* transactions that are left.                                             *)
LEMMA RevalidatePool ==
  ASSUME TypeInv, PoolInv, Revalidate
  PROVE  PoolInv' /\ Rises(pool, pool')
<1> DEFINE w == work.revalidating
<1>1. PICK id \in DOMAIN w :
        /\ pool' = validate_tx(pool, chain, id, w[id], Version)
        /\ work' = [work EXCEPT !.revalidating = Restrict(@, DOMAIN @ \ {id})]
  BY DEF Revalidate
<1>2. PoolType(pool) /\ Consistent(pool) /\ JobType(work) /\ work.returning = <<>>
  BY DEF TypeInv, PoolInv, GoodWork, Revalidate
<1>3. id \in Tx /\ w[id] \in Meta
  BY <1>2 DEF JobType, IsTable
<1>4. id \in DOMAIN pool.db => w[id].method = pool.db[id].method
  BY DEF PoolInv
<1>5. Kept(pool)
  BY DEF PoolInv
<1>6. /\ Consistent(pool') /\ Kept(pool') /\ Rises(pool, pool')
      /\ Shrinks(pool, pool')
  <2> DEFINE m == w[id]
             v == Version
  <2>1. /\ pool' = validate_tx(pool, chain, id, m, v) /\ m \in Meta
        /\ id \in DOMAIN pool.db => m.method = pool.db[id].method
    BY <1>1, <1>3, <1>4
  <2> HIDE DEF w, m, v
  <2> QED BY <1>2, <1>3, <1>5, <2>1, ValidateKeeps
<1>7. work'.revalidating = Restrict(w, DOMAIN w \ {id}) /\ work'.returning = <<>>
  BY <1>1, <1>2 DEF JobType
<1>8. \A t \in DOMAIN work'.revalidating :
        t \in DOMAIN w /\ work'.revalidating[t] = w[t]
  BY <1>7 DEF Restrict
<1>9. batch_ok'
  BY DEF Revalidate, PoolInv
<1> QED BY <1>6, <1>7, <1>8, <1>9 DEF PoolInv, Shrinks

(* A transaction of the supplement of an alternative block.                *)
LEMMA AddSupplementPool ==
  ASSUME TypeInv, PoolInv, AddSupplement
  PROVE  PoolInv' /\ Rises(pool, pool')
<1> DEFINE v == VersionAt(height[Head(work.script).block])
<1>1. PICK id \in work.supplement :
        /\ \/ pool' = pool
           \/ pool' = add_tx(pool, chain, id, relay_block, v, v).pool
        /\ \/ work' = [work EXCEPT !.supplement = @ \ {id}]
           \/ work' = NoWork
  BY DEF AddSupplement
<1>2. JobType(work) /\ work.revalidating = <<>>
  BY CommandFacts DEF AddSupplement
<1>3. id \in Tx /\ relay_block \in RelayMethod
  BY <1>2 DEF JobType, relay_block, RelayMethod
<1>4. work'.revalidating = <<>>
  BY <1>1, <1>2, NoWorkFacts DEF JobType
<1> HIDE DEF v
<1>5. Consistent(pool') /\ Kept(pool') /\ Rises(pool, pool')
  <2>1. CASE pool' = pool
    BY <2>1, SamePool
  <2>2. CASE pool' = add_tx(pool, chain, id, relay_block, v, v).pool
    BY <1>3, <2>2, AddTxKeeps DEF TypeInv, PoolInv
  <2> QED BY <1>1, <2>1, <2>2
<1>6. batch_ok'
  BY DEF AddSupplement, PoolInv
<1> QED BY <1>4, <1>5, <1>6, QuietPool

(* The steps that only change the chain, the alternative blocks or the     *)
(* script.                                                                 *)
LEMMA ScriptPool ==
  ASSUME TypeInv, PoolInv, SupplementDone \/ StoreAlt \/ PopBlock \/ SwitchDone
  PROVE  PoolInv' /\ Rises(pool, pool')
<1>1. pool' = pool /\ batch_ok'
  BY DEF SupplementDone, StoreAlt, PopBlock, SwitchDone, PoolInv
<1>2. work'.revalidating = <<>>
  <2>1. CASE SupplementDone
    BY <2>1, CommandFacts DEF SupplementDone
  <2>2. CASE StoreAlt
    <3>1. Shape(Rest) /\ Rest.revalidating = <<>>
      BY <2>2, CommandFacts DEF StoreAlt
    <3> DEFINE b == Head(work.script).block
               c == Append(AltChain(b), b)
               n == height[c[1]]
               old == SubSeq(chain, n + 1, Len(chain))
               s == Commands("pop", old)
                      \o (Commands("connect", c) \o Commands("store", old))
               r == Range(c)
    <3>2. \/ work' = Rest
          \/ work' = [Rest EXCEPT !.script = s, !.old = old,
                                   !.split = n, !.remove = r]
      BY <2>2 DEF StoreAlt
    <3> HIDE DEF s, old, n, r
    <3> QED BY <3>1, <3>2 DEF Shape
  <2>3. CASE PopBlock
    <3>1. Shape(Rest) /\ Rest.revalidating = <<>>
      BY <2>3, CommandFacts DEF PopBlock
    <3>2. work' = [Rest EXCEPT !.returning = txs[Top], !.found = Range(txs[Top]),
                               !.popped = Version]
      BY <2>3 DEF PopBlock
    <3> QED BY <3>1, <3>2 DEF Shape
  <2>4. CASE SwitchDone
    BY <2>4, NoWorkFacts DEF SwitchDone
  <2> QED BY <2>1, <2>2, <2>3, <2>4
<1> QED BY <1>1, <1>2, SamePool, QuietPool

(* switch_to_alternative_blockchain, one block.                            *)
LEMMA ConnectPool ==
  ASSUME NoClash, TypeInv, PoolInv, Connect
  PROVE  PoolInv' /\ Rises(pool, pool')
<1> DEFINE b == Head(work.script).block
           connected == SubSeq(chain, work.split + 1, Len(chain))
           rest == [Rest EXCEPT !.script = Rollback(connected),
                                !.remove = @ \ Range(connected)]
<1>1. Shape(Rest) /\ Rest.returning = <<>> /\ Rest.revalidating = <<>>
  BY CommandFacts DEF Connect
<1>2. b \in Block
  BY RestType DEF Connect, Command, Cmd
<1>3. \/ GoodBlock(b, {}) /\ AcceptBlock(b, Rest)
      \/ ~ GoodBlock(b, {}) /\ RefuseBlock(b, {}, rest)
  BY DEF Connect
<1>4. Shape(rest) /\ rest.revalidating = <<>>
  BY <1>1 DEF Shape
<1> HIDE DEF b, rest
<1> QED BY <1>1, <1>2, <1>3, <1>4, AcceptPool, RefusePool

(* rollback_blockchain_switching, one block.                               *)
LEMMA ReconnectPool ==
  ASSUME NoClash, TypeInv, PoolInv, Reconnect
  PROVE  PoolInv' /\ Rises(pool, pool')
<1> DEFINE b == Head(work.script).block
           rest == [Rest EXCEPT !.script = <<>>]
<1>1. Shape(Rest) /\ Rest.returning = <<>> /\ Rest.revalidating = <<>>
  BY CommandFacts DEF Reconnect
<1>2. b \in Block
  BY RestType DEF Reconnect, Command, Cmd
<1>3. \/ GoodBlock(b, {}) /\ AcceptBlock(b, Rest)
      \/ ~ GoodBlock(b, {}) /\ RefuseBlock(b, {}, rest)
  BY DEF Reconnect
<1>4. Shape(rest) /\ rest.revalidating = <<>>
  BY <1>1, ShapeKept
<1> HIDE DEF b, rest
<1> QED BY <1>1, <1>2, <1>3, <1>4, AcceptPool, RefusePool

(* Every turn of the loops.                                                *)
LEMMA WorkStepPool ==
  ASSUME NoClash, TypeInv, PoolInv, WorkStep
  PROVE  PoolInv' /\ Rises(pool, pool')
  BY ReturnTxPool, BlockPoppedPool, RevalidatePool, AddSupplementPool,
     ScriptPool, ConnectPool, ReconnectPool DEF WorkStep

(* add_new_tx, the insertion.                                              *)
LEMMA AddNewTxPool ==
  ASSUME TypeInv, PoolInv, AddNewTx
  PROVE  PoolInv' /\ Rises(pool, pool')
<1>1. incoming.id \in Tx /\ incoming.relay \in RelayMethod
  BY DEF AddNewTx, TypeInv, IncomingTx
<1>2. pool' = add_tx(pool, chain, incoming.id, incoming.relay,
                     incoming.version, 0).pool
  BY DEF AddNewTx
<1>3. Consistent(pool') /\ Kept(pool') /\ Rises(pool, pool')
  BY <1>1, <1>2, AddTxKeeps DEF TypeInv, PoolInv
<1>4. Idle /\ Idle' /\ batch_ok'
  BY DEF AddNewTx, Free, Idle, PoolInv
<1> QED BY <1>3, <1>4, SameJob

(* on_transactions_relayed.                                                *)
LEMMA RelayedPool ==
  ASSUME TypeInv, PoolInv, NEW id \in Tx, NEW method \in RelayedAs,
         OnTransactionsRelayed(id, method)
  PROVE  PoolInv' /\ Rises(pool, pool')
<1>1. method \in RelayMethod \ {relay_block} /\ PoolType(pool)
  BY NodeAssumption DEF TypeInv
<1>2. pool' = set_relayed(pool, id, method)
  BY DEF OnTransactionsRelayed
<1>3. PoolType(pool') /\ Consistent(pool') /\ Extends(pool, pool', id, method)
  BY <1>1, <1>2, SetRelayedLemma DEF PoolInv
<1>4. id \in DOMAIN pool.db \/ pool' = pool
  BY <1>2 DEF set_relayed
<1>5. Kept(pool') /\ Rises(pool, pool')
  <2>1. CASE id \in DOMAIN pool.db
    BY <1>1, <1>3, <2>1, ExtendsKept DEF PoolInv
  <2>2. CASE pool' = pool
    BY <2>2, SamePool
  <2> QED BY <1>4, <2>1, <2>2
<1>6. Idle /\ Idle' /\ batch_ok'
  BY DEF OnTransactionsRelayed, Free, Idle, PoolInv
<1> QED BY <1>3, <1>5, <1>6, SameJob

(* add_new_block.                                                          *)
LEMMA AddNewBlockPool ==
  ASSUME NoClash, TypeInv, PoolInv, NEW b \in Block,
         NEW supplement, AddNewBlock(b, supplement)
  PROVE  PoolInv' /\ Rises(pool, pool')
<1> DEFINE s == <<[op |-> "supplement", block |-> b], [op |-> "store", block |-> b]>>
<1>1. Shape(NoWork) /\ NoWork.returning = <<>> /\ NoWork.revalidating = <<>>
  BY NoWorkFacts DEF Shape, NoWork
<1>2. CASE AcceptBlock(b, NoWork)
  BY <1>1, <1>2, AcceptPool
<1>3. CASE ~ GoodBlock(b, supplement) /\ RefuseBlock(b, supplement, NoWork)
  BY <1>1, <1>3, RefusePool
<1>4. CASE /\ work' = [NoWork EXCEPT !.script = s, !.supplement = supplement]
           /\ UNCHANGED <<pool, batch_ok>>
  <2> HIDE DEF s
  <2>1. work'.revalidating = <<>>
    BY <1>1, <1>4 DEF Shape
  <2> QED BY <1>4, <2>1, SamePool, QuietPool DEF PoolInv
<1> QED BY <1>2, <1>3, <1>4 DEF AddNewBlock

(* The handlers that leave the pool alone.                                 *)
LEMMA OtherPool ==
  ASSUME TypeInv, PoolInv,
         \/ \E id \in Tx, relay \in IncomingRelay : HandleIncomingTx(id, relay)
         \/ LookOnChain \/ PrepareIncomingBlocks \/ CleanupIncomingBlocks
         \/ FlushInvalidBlocks
  PROVE  PoolInv' /\ Rises(pool, pool')
<1>1. pool' = pool /\ batch_ok' /\ Idle /\ Idle'
  BY DEF HandleIncomingTx, LookOnChain, PrepareIncomingBlocks,
         CleanupIncomingBlocks, FlushInvalidBlocks, Free, Idle, PoolInv
<1> QED BY <1>1, SamePool, SameJob

(* pop_blocks, before the first pop.                                       *)
LEMMA PopBlocksPool ==
  ASSUME TypeInv, PoolInv, PopBlocks
  PROVE  PoolInv' /\ Rises(pool, pool')
<1> DEFINE s == <<[op |-> "pop", block |-> Top]>>
<1>1. work' = [NoWork EXCEPT !.script = s] /\ pool' = pool /\ batch_ok'
  BY DEF PopBlocks, PoolInv
<1> HIDE DEF s
<1>2. work'.revalidating = <<>>
  BY <1>1 DEF NoWork
<1> QED BY <1>1, <1>2, SamePool, QuietPool

(* The handlers of the operator and of the timer.                          *)
LEMMA OperatorPool ==
  ASSUME TypeInv, PoolInv,
         \/ \E id \in Tx : FlushTx(id) \/ Age(id)
         \/ CreateBlockTemplate \/ RemoveStuckTransactions \/ Restart
  PROVE  PoolInv' /\ Rises(pool, pool')
<1>1. Idle /\ Idle' /\ batch_ok'
  BY DEF FlushTx, Age, CreateBlockTemplate, RemoveStuckTransactions, Restart,
         Free, Idle, PoolInv
<1>2. PoolType(pool) /\ Consistent(pool) /\ Kept(pool)
  BY DEF TypeInv, PoolInv
<1>3. Consistent(pool') /\ Kept(pool') /\ Rises(pool, pool')
  <2>1. ASSUME NEW id \in Tx, FlushTx(id)
        PROVE  Consistent(pool') /\ Kept(pool') /\ Rises(pool, pool')
    BY <1>2, <2>1, TakeKeeps DEF FlushTx
  <2>2. ASSUME NEW id \in Tx, Age(id)
        PROVE  Consistent(pool') /\ Kept(pool') /\ Rises(pool, pool')
    <3>1. /\ pool'.images = pool.images /\ pool'.sorted = pool.sorted
          /\ pool'.timed_out = pool.timed_out
          /\ DOMAIN pool'.db = DOMAIN pool.db
          /\ \A t \in DOMAIN pool.db : pool'.db[t].method = pool.db[t].method
      BY <2>2, AgeType
    <3> QED BY <1>2, <3>1, ConsistentSame, SameKept
  <2>3. CASE CreateBlockTemplate
    <3> DEFINE tested == fill_block_template(pool, chain, Version).tested
    <3>1. pool' = AfterTemplate(pool, chain, tested) /\ Last(chain) \in Block
      BY <2>3, TopType DEF CreateBlockTemplate, TypeInv
    <3> HIDE DEF tested
    <3>2. /\ Consistent(pool') /\ DOMAIN pool'.db = DOMAIN pool.db
          /\ \A t \in DOMAIN pool.db : pool'.db[t].method = pool.db[t].method
          /\ pool'.timed_out = pool.timed_out
      BY <1>2, <3>1, TemplateLemma
    <3> QED BY <1>2, <3>2, SameKept
  <2>4. CASE RemoveStuckTransactions
    <3>1. /\ Consistent(pool') /\ Shrinks(pool, pool')
          /\ pool'.timed_out = pool.timed_out \cup StuckSet(pool)
          /\ DOMAIN pool'.db \cap StuckSet(pool) = {}
      BY <1>2, <2>4, StuckLemma DEF RemoveStuckTransactions
    <3> QED BY <1>2, <3>1, SameKept DEF Shrinks
  <2>5. CASE Restart
    <3>1. /\ Consistent(pool') /\ pool'.db = pool.db /\ pool'.timed_out = {}
      BY <1>2, <2>5, PoolFromLemma DEF Restart, PoolType
    <3> QED BY <1>2, <3>1, SameKept
  <2> QED BY <2>1, <2>2, <2>3, <2>4, <2>5
<1> QED BY <1>1, <1>3, SameJob

(* Every step.                                                             *)
LEMMA NextPool ==
  ASSUME NoClash, TypeInv, PoolInv, [Next]_vars
  PROVE  PoolInv' /\ Rises(pool, pool')
<1>1. CASE UNCHANGED vars
  <2>1. /\ pool' = pool /\ work' = work /\ batch_ok' = batch_ok
    BY <1>1 DEF vars
  <2> QED BY <2>1, SamePool DEF PoolInv
<1>2. CASE Next
  BY <1>2, WorkStepPool, AddNewTxPool, RelayedPool, AddNewBlockPool, OtherPool,
     PopBlocksPool, OperatorPool DEF Next
<1> QED BY <1>1, <1>2

-----------------------------------------------------------------------------
(* The theorems.                                                           *)

(* The inductive invariant holds in every state.                           *)
LEMMA PoolInvariant ==
  ASSUME NoClash
  PROVE  Spec => [](TypeInv /\ PoolInv)
<1>1. Init => TypeInv /\ PoolInv
  BY InitType, InitPool
<1>2. TypeInv /\ PoolInv /\ [Next]_vars => TypeInv' /\ PoolInv'
  BY NextType, NextPool
<1> QED BY <1>1, <1>2, PTL DEF Spec

(* While no block spends a key image twice, m_spent_key_images holds       *)
(* exactly what the table says, for any number of transactions, blocks and *)
(* reorganisations.                                                        *)
THEOREM KeyImagesAgree ==
  ASSUME NoClash
  PROVE  Spec => []KeyImagesMatchPool
<1>1. PoolInv => KeyImagesMatchPool
  BY DEF PoolInv, Consistent, KeyImagesMatchPool
<1> QED BY <1>1, PoolInvariant, PTL

(* Likewise m_txs_by_fee_and_receive_time lists exactly the table.         *)
THEOREM SortedAgrees ==
  ASSUME NoClash
  PROVE  Spec => []SortedMatchesPool
<1>1. PoolInv => SortedMatchesPool
  BY DEF PoolInv, Consistent, SortedMatchesPool
<1> QED BY <1>1, PoolInvariant, PTL

(* The table is at all times one that tx_memory_pool::init accepts.        *)
THEOREM AlwaysRestartable ==
  ASSUME NoClash
  PROVE  Spec => []RestartSucceeds
<1>1. PoolInv => RestartSucceeds
  BY DEF PoolInv, Consistent, RestartSucceeds
<1> QED BY <1>1, PoolInvariant, PTL

(* A transaction that remove_stuck_transactions timed out is in the pool   *)
(* again only kept by block.                                               *)
THEOREM TimedOutStaysOut ==
  ASSUME NoClash
  PROVE  Spec => []TimedOutOnlyKept
<1>1. PoolInv => TimedOutOnlyKept
  BY DEF PoolInv, Kept, TimedOutOnlyKept
<1> QED BY <1>1, PoolInvariant, PTL

(* No handler lowers the relay method of a transaction that stays in the   *)
(* pool: what was broadcast is never hidden again.                         *)
THEOREM PrivacyOnlyFalls ==
  ASSUME NoClash
  PROVE  Spec => RelayNeverDowngraded
<1>1. TypeInv /\ PoolInv /\ [Next]_vars
        => [\A id \in DOMAIN pool.db \cap DOMAIN pool'.db :
              pool.db[id].method <= pool'.db[id].method]_vars
  BY NextPool DEF Rises
<1> QED BY <1>1, PoolInvariant, PTL DEF Spec, RelayNeverDowngraded

-----------------------------------------------------------------------------
(* The weight.                                                             *)

(* A block that is taken, and one that is refused.                         *)
LEMMA BlockFits ==
  ASSUME TypeInv, Fits(pool), NEW b, NEW s, NEW rest,
         AcceptBlock(b, rest) \/ RefuseBlock(b, s, rest)
  PROVE  Fits(pool')
<1>1. PoolType(pool)
  BY DEF TypeInv
<1>2. \/ pool' = ClearCache(take_txs(pool, Range(txs[b])))
      \/ pool' = take_txs(pool, Taken(b, s))
  BY DEF AcceptBlock, RefuseBlock, on_blockchain_inc
<1>3. \A S : PoolType(take_txs(pool, S)) /\ Fits(take_txs(pool, S))
  BY <1>1, TakeLemma, TakeFits
<1> QED
  BY <1>2, <1>3, ClearCacheFits

(* The turns of the loops.                                                 *)
LEMMA WorkStepFits ==
  ASSUME TypeInv, PoolInv, Fits(pool), WorkStep
  PROVE  Fits(pool')
<1>1. PoolType(pool) /\ Consistent(pool) /\ pool.sorted = DOMAIN pool.db
      /\ JobType(work)
  BY DEF TypeInv, PoolInv, GoodWork, Consistent
<1>2. relay_block \in RelayMethod
  BY DEF relay_block, RelayMethod
<1>3. CASE ReturnTx
  <2> DEFINE id == Head(work.returning)
  <2>1. id \in Tx
    BY <1>1, <1>3 DEF JobType, ReturnTx
  <2>2. \/ pool' = pool
        \/ pool' = add_tx(pool, chain, id, relay_block, Version, Version).pool
    BY <1>3 DEF ReturnTx
  <2> HIDE DEF id
  <2> QED
    BY <1>1, <1>2, <2>1, <2>2, AddTxFits
<1>4. CASE BlockPopped
  BY <1>1, <1>4, ClearCacheFits DEF BlockPopped, on_blockchain_dec
<1>5. CASE Revalidate
  <2> DEFINE w == work.revalidating
  <2>1. PICK id \in DOMAIN w : pool' = validate_tx(pool, chain, id, w[id], Version)
    BY <1>5 DEF Revalidate
  <2>2. id \in Tx /\ w[id] \in Meta
    BY <1>1 DEF JobType, IsTable
  <2> DEFINE m == w[id]
  <2>3. pool' = validate_tx(pool, chain, id, m, Version) /\ m \in Meta
    BY <2>1, <2>2
  <2> HIDE DEF w, m
  <2> QED
    BY <1>1, <2>2, <2>3, ValidateFits
<1>6. CASE AddSupplement
  <2> DEFINE v == VersionAt(height[Head(work.script).block])
  <2>1. PICK id \in work.supplement :
          \/ pool' = pool
          \/ pool' = add_tx(pool, chain, id, relay_block, v, v).pool
    BY <1>6 DEF AddSupplement
  <2>2. id \in Tx
    BY <1>1 DEF JobType
  <2> HIDE DEF v
  <2> QED
    BY <1>1, <1>2, <2>1, <2>2, AddTxFits
<1>7. CASE SupplementDone \/ StoreAlt \/ PopBlock \/ SwitchDone
  <2>1. pool' = pool
    BY <1>7 DEF SupplementDone, StoreAlt, PopBlock, SwitchDone
  <2> QED
    BY <2>1
<1>8. CASE Connect \/ Reconnect
  <2>1. \/ \E b, rest : AcceptBlock(b, rest)
        \/ \E b, s, rest : RefuseBlock(b, s, rest)
    BY <1>8 DEF Connect, Reconnect
  <2> QED
    BY <2>1, BlockFits
<1> QED
  BY <1>3, <1>4, <1>5, <1>6, <1>7, <1>8 DEF WorkStep

(* Every step.  None aborts a batch, for batch_ok holds.                   *)
LEMMA NextFits ==
  ASSUME TypeInv, PoolInv, Fits(pool), [Next]_vars
  PROVE  Fits(pool')
<1>1. PoolType(pool) /\ Consistent(pool) /\ pool.sorted = DOMAIN pool.db
  BY DEF TypeInv, PoolInv, Consistent
<1>2. CASE AddNewTx
  <2>1. incoming.id \in Tx /\ incoming.relay \in RelayMethod
    BY <1>2 DEF AddNewTx, TypeInv, IncomingTx
  <2>2. pool' = add_tx(pool, chain, incoming.id, incoming.relay,
                       incoming.version, 0).pool
    BY <1>2 DEF AddNewTx
  <2> QED
    BY <1>1, <2>1, <2>2, AddTxFits
<1>3. ASSUME NEW id \in Tx, NEW method \in RelayedAs,
             OnTransactionsRelayed(id, method)
      PROVE  Fits(pool')
  <2>1. method \in RelayMethod \ {relay_block}
    BY NodeAssumption
  <2> QED
    BY <1>1, <1>3, <2>1, SetRelayedFits DEF OnTransactionsRelayed
<1>4. ASSUME NEW b \in Block, NEW supplement, AddNewBlock(b, supplement)
      PROVE  Fits(pool')
  <2>1. \/ \E rest : AcceptBlock(b, rest)
        \/ \E s, rest : RefuseBlock(b, s, rest)
        \/ pool' = pool
    BY <1>4 DEF AddNewBlock
  <2> QED
    BY <2>1, BlockFits
<1>5. CASE \/ \E id \in Tx, relay \in IncomingRelay : HandleIncomingTx(id, relay)
           \/ LookOnChain \/ PrepareIncomingBlocks \/ CleanupIncomingBlocks
           \/ FlushInvalidBlocks \/ PopBlocks \/ UNCHANGED vars
  <2>1. pool' = pool
    BY <1>5 DEF HandleIncomingTx, LookOnChain, PrepareIncomingBlocks,
         CleanupIncomingBlocks, FlushInvalidBlocks, PopBlocks, PoolInv, vars
  <2> QED
    BY <2>1
<1>6. ASSUME NEW id \in Tx, FlushTx(id) PROVE Fits(pool')
  BY <1>1, <1>6, TakeFits DEF FlushTx
<1>7. ASSUME NEW id \in Tx, Age(id) PROVE Fits(pool')
  <2>1. /\ DOMAIN pool'.db = DOMAIN pool.db
        /\ \A t \in DOMAIN pool.db : pool'.db[t].method = pool.db[t].method
    BY <1>7, AgeType DEF TypeInv
  <2>2. pool'.weight = pool.weight
    BY <1>1, <1>7 DEF Age, PoolType
  <2> QED
    BY <2>1, <2>2, FitsSame DEF KeptByBlock
<1>8. CASE CreateBlockTemplate
  <2> DEFINE tested == fill_block_template(pool, chain, Version).tested
  <2>1. pool' = AfterTemplate(pool, chain, tested) /\ Last(chain) \in Block
    BY <1>8, TopType DEF CreateBlockTemplate, TypeInv
  <2> HIDE DEF tested
  <2>2. /\ DOMAIN pool'.db = DOMAIN pool.db
        /\ \A t \in DOMAIN pool.db : pool'.db[t].method = pool.db[t].method
    BY <1>1, <2>1, TemplateLemma
  <2>3. pool'.weight = pool.weight
    BY <1>1, <2>1 DEF AfterTemplate, PoolType
  <2> QED
    BY <2>2, <2>3, FitsSame DEF KeptByBlock
<1>9. CASE RemoveStuckTransactions
  BY <1>1, <1>9, StuckFits DEF RemoveStuckTransactions
<1>10. CASE Restart
  BY <1>10, PoolFromFits DEF Restart
<1>11. CASE WorkStep
  BY <1>11, WorkStepFits
<1> QED
  BY <1>2, <1>3, <1>4, <1>5, <1>6, <1>7, <1>8, <1>9, <1>10, <1>11 DEF Next

(* m_txpool_weight and the limit, always.                                  *)
LEMMA FitsAlways ==
  ASSUME NoClash
  PROVE  Spec => []Fits(pool)
<1>1. Init => Fits(pool)
  BY EmptyFits DEF Init
<1>2. TypeInv /\ PoolInv /\ Fits(pool) /\ [Next]_vars => Fits(pool)'
  BY NextFits
<1> QED
  BY <1>1, <1>2, PoolInvariant, PTL DEF Spec

(* While no block spends a key image twice, m_txpool_weight never falls    *)
(* below the weight of the table: no removal meets "Underflow in txpool    *)
(* weight", for any transactions and any sequence of handlers.             *)
THEOREM WeightCovers ==
  ASSUME NoClash
  PROVE  Spec => []WeightCoversPool
<1>1. Fits(pool) => WeightCoversPool
  BY DEF Fits, Weighed, WeightCoversPool
<1> QED
  BY <1>1, FitsAlways, PTL

(* Under the same hypothesis a pool over its limit holds nothing that      *)
(* prune could evict.                                                      *)
THEOREM PoolIsBounded ==
  ASSUME NoClash
  PROVE  Spec => []PoolBounded
<1>1. Fits(pool) => PoolBounded
  BY DEF Fits, Bounded, PoolBounded
<1> QED
  BY <1>1, FitsAlways, PTL
=============================================================================
