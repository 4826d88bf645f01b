---------------------------- MODULE TxPoolProofs ----------------------------
(***************************************************************************)
(* What the operators of TxPool preserve, for every set of transactions,   *)
(* key images and blocks: the type of a pool, the agreement of its table   *)
(* with the members kept in memory, and the weight and the limit on it.    *)
(***************************************************************************)
EXTENDS TxPool, FiniteSetTheorems, TLAPS

(* The parts of the pool agree: the key images and the sorted container    *)
(* are those of the table, and the table is one init accepts.              *)
Consistent(p) ==
  /\ ImagesMatch(p)
  /\ p.sorted = DOMAIN p.db
  /\ InitSucceeds(p.db)

-----------------------------------------------------------------------------
(* Removal.                                                                *)

(* Removing any transactions leaves a pool.                                *)
LEMMA RemoveTxsType ==
  ASSUME NEW p, PoolType(p), NEW S
  PROVE  /\ PoolType(RemoveTxs(p, S))
         /\ DOMAIN RemoveTxs(p, S).db = DOMAIN p.db \ S
         /\ \A t \in DOMAIN p.db \ S : RemoveTxs(p, S).db[t] = p.db[t]
  BY DEF PoolType, RemoveTxs, IsTable, Restrict, remove_transaction_keyimages

(* remove_transaction_keyimages stops at the first input that is not       *)
(* recorded; in a pool whose images match its table it never does.         *)
LEMMA RemoveTxsConsistent ==
  ASSUME NEW p, PoolType(p), Consistent(p), NEW S
  PROVE  Consistent(RemoveTxs(p, S))
<1> DEFINE q == RemoveTxs(p, S)
<1>1. DOMAIN q.db = DOMAIN p.db \ S /\ \A t \in DOMAIN q.db : q.db[t] = p.db[t]
  BY RemoveTxsType
<1>2. ImagesMatch(q)
  <2> SUFFICES ASSUME NEW ki \in KeyImage
               PROVE  q.images[ki] = {id \in DOMAIN q.db : ki \in Images(id)}
    BY DEF ImagesMatch
  <2>1. q.images[ki] = p.images[ki] \ {id \in S : \E i \in DOMAIN vin[id] :
                      /\ vin[id][i] = ki
                      /\ \A j \in 1..i : id \in p.images[vin[id][j]]}
    BY DEF RemoveTxs, remove_transaction_keyimages, PoolType
  <2>2. p.images[ki] = {id \in DOMAIN p.db : ki \in Images(id)}
    BY DEF Consistent, ImagesMatch
  <2>3. ASSUME NEW id \in DOMAIN p.db, NEW i \in DOMAIN vin[id], NEW j \in 1..i
        PROVE  id \in p.images[vin[id][j]]
    <3>1. id \in Tx /\ vin[id] \in Seq(KeyImage)
      BY TxAssumption DEF PoolType, IsTable
    <3>2. vin[id][j] \in KeyImage /\ vin[id][j] \in Images(id)
      BY <3>1 DEF Images, Range
    <3> QED BY <3>2 DEF Consistent, ImagesMatch
  <2>4. \A id \in DOMAIN p.db : ki \in Images(id) <=> \E i \in DOMAIN vin[id] : vin[id][i] = ki
    BY DEF Images, Range
  <2> QED BY <1>1, <2>1, <2>2, <2>3, <2>4
<1>3. q.sorted = DOMAIN q.db
  BY <1>1 DEF RemoveTxs, PoolType, Consistent
<1>4. InitSucceeds(q.db)
  BY <1>1 DEF Consistent, InitSucceeds
<1> QED BY <1>2, <1>3, <1>4 DEF Consistent

-----------------------------------------------------------------------------
(* Insertion.                                                              *)

(* The row of a transaction is written, and no other.                      *)
LEMMA PutRowType ==
  ASSUME NEW db, IsTable(db), NEW id \in Tx, NEW meta \in Meta
  PROVE  /\ IsTable(PutRow(db, id, meta))
         /\ DOMAIN PutRow(db, id, meta) = DOMAIN db \cup {id}
         /\ PutRow(db, id, meta)[id] = meta
         /\ \A t \in DOMAIN db \ {id} : PutRow(db, id, meta)[t] = db[t]
  BY DEF IsTable, PutRow

(* The metadata add_tx writes for a transaction are metadata.              *)
LEMMA FreshMetaType ==
  ASSUME NEW method \in RelayMethod, NEW seen \in BOOLEAN
  PROVE  /\ FreshMeta(method, seen) \in Meta
         /\ FreshMeta(method, seen).method = method
  BY DEF FreshMeta, Meta

(* insert_key_images leaves a map from key images to transactions.         *)
LEMMA InsertImagesType ==
  ASSUME NEW p, PoolType(p), NEW id \in Tx, NEW relay
  PROVE  insert_key_images(p, id, relay) \in [KeyImage -> SUBSET Tx]
  BY DEF PoolType, insert_key_images

(* Inserting a transaction leaves a pool with one more row.                *)
LEMMA InsertTxType ==
  ASSUME NEW p, PoolType(p), NEW id \in Tx, NEW meta \in Meta, NEW relay,
         NEW added
  PROVE  /\ PoolType(InsertTx(p, id, meta, relay, added))
         /\ InsertTx(p, id, meta, relay, added).db = PutRow(p.db, id, meta)
         /\ InsertTx(p, id, meta, relay, added).images
              = insert_key_images(p, id, relay)
         /\ InsertTx(p, id, meta, relay, added).sorted = p.sorted \cup {id}
  BY PutRowType, InsertImagesType DEF PoolType, InsertTx

(* insert_key_images has either no effect or all of it: it refuses an      *)
(* input of a transaction the pool has only at the first input.            *)
LEMMA InsertImagesAll ==
  ASSUME NEW p, PoolType(p), NEW id \in Tx, NEW relay,
         InsertsImages(p, id, relay), NEW ki \in KeyImage
  PROVE  insert_key_images(p, id, relay)[ki]
           = IF ki \in Images(id) THEN p.images[ki] \cup {id} ELSE p.images[ki]
<1>1. vin[id] \in Seq(KeyImage)
  BY TxAssumption
<1>2. \A i \in DOMAIN vin[id] : \A j \in 1..i : j \in DOMAIN vin[id]
  BY <1>1
<1> QED BY <1>2 DEF insert_key_images, InsertsImages, Images, Range

(* The transaction enters the table and the images together.  It must be   *)
(* kept by block or alone on its key images.                               *)
LEMMA InsertTxConsistent ==
  ASSUME NEW p, PoolType(p), Consistent(p), NEW id \in Tx, NEW meta \in Meta,
         NEW relay, NEW added, InsertsImages(p, id, relay),
         \/ meta.method = relay_block
         \/ \A ki \in Images(id) : p.images[ki] \subseteq {id}
  PROVE  Consistent(InsertTx(p, id, meta, relay, added))
<1> DEFINE q == InsertTx(p, id, meta, relay, added)
<1>0. IsTable(p.db) /\ Images(id) \subseteq KeyImage
  BY TxAssumption DEF PoolType, Images, Range
<1>1. /\ DOMAIN q.db = DOMAIN p.db \cup {id}
      /\ q.db[id] = meta
      /\ \A t \in DOMAIN p.db \ {id} : q.db[t] = p.db[t]
  <2>1. q.db = PutRow(p.db, id, meta)
    BY InsertTxType
  <2> HIDE DEF q
  <2> QED BY <2>1 DEF PutRow
<1>2. ImagesMatch(q)
  <2> SUFFICES ASSUME NEW ki \in KeyImage
               PROVE  q.images[ki] = {t \in DOMAIN q.db : ki \in Images(t)}
    BY DEF ImagesMatch
  <2>1. q.images[ki] = IF ki \in Images(id) THEN p.images[ki] \cup {id}
                                            ELSE p.images[ki]
    BY InsertTxType, InsertImagesAll
  <2>2. p.images[ki] = {t \in DOMAIN p.db : ki \in Images(t)}
    BY DEF Consistent, ImagesMatch
  <2> QED BY <1>1, <2>1, <2>2
<1>3. q.sorted = DOMAIN q.db
  <2>1. q.sorted = p.sorted \cup {id}
    BY InsertTxType
  <2>2. p.sorted = DOMAIN p.db
    BY DEF Consistent
  <2> QED BY <1>1, <2>1, <2>2
<1>4. InitSucceeds(q.db)
  <2> SUFFICES ASSUME NEW s \in DOMAIN q.db, NEW t \in DOMAIN q.db, s # t,
                      NEW ki \in Images(s) \cap Images(t)
               PROVE  relay_block \in {q.db[s].method, q.db[t].method}
    BY DEF InitSucceeds
  <2>1. CASE s # id /\ t # id
    BY <1>1, <2>1 DEF Consistent, InitSucceeds
  <2>2. CASE meta.method = relay_block /\ (s = id \/ t = id)
    BY <1>1, <2>2
  <2>3. CASE (\A k \in Images(id) : p.images[k] \subseteq {id}) /\ (s = id \/ t = id)
    <3>1. PICK u \in {s, t} : u # id /\ u \in DOMAIN p.db
      BY <1>1
    <3>2. ki \in KeyImage /\ ki \in Images(id) /\ ki \in Images(u)
      BY <1>0, <2>3
    <3>3. u \in p.images[ki]
      BY <3>1, <3>2 DEF Consistent, ImagesMatch
    <3> QED BY <2>3, <3>1, <3>2, <3>3
  <2> QED BY <2>1, <2>2, <2>3
<1> QED BY <1>2, <1>3, <1>4 DEF Consistent

-----------------------------------------------------------------------------
(* add_tx.                                                                 *)

(* What add_tx may do to the table: only its own transaction enters, under *)
(* the method it came with; no method is lowered, and only its own raised. *)
Extends(p, q, id, relay) ==
  /\ DOMAIN q.db \subseteq DOMAIN p.db \cup {id}
  /\ \A t \in DOMAIN p.db \cap DOMAIN q.db :
       /\ p.db[t].method <= q.db[t].method
       /\ t # id => q.db[t].method = p.db[t].method
  /\ id \in DOMAIN q.db \ DOMAIN p.db => q.db[id].method = relay
  /\ q.timed_out = p.timed_out

(* What the rows of a pool are made of.                                    *)
LEMMA MethodType ==
  ASSUME NEW p, PoolType(p), NEW t \in DOMAIN p.db
  PROVE  /\ t \in Tx
         /\ p.db[t] \in Meta
         /\ p.db[t].method \in RelayMethod
         /\ p.db[t].method \in Int
  BY DEF PoolType, IsTable, Meta, RelayMethod

(* The prune that ends add_tx only removes rows.                           *)
LEMMA AcceptLemma ==
  ASSUME NEW p, PoolType(p)
  PROVE  /\ PoolType(Accept(p).pool)
         /\ Consistent(p) => Consistent(Accept(p).pool)
         /\ DOMAIN Accept(p).pool.db \subseteq DOMAIN p.db
         /\ \A t \in DOMAIN Accept(p).pool.db : Accept(p).pool.db[t] = p.db[t]
         /\ Accept(p).pool.timed_out = p.timed_out
<1>1. Accept(p).pool = RemoveTxs(p, PruneSet(p))
  BY DEF Accept, prune
<1>2. RemoveTxs(p, PruneSet(p)).timed_out = p.timed_out
  BY DEF RemoveTxs, PoolType
<1> QED BY <1>1, <1>2, RemoveTxsType, RemoveTxsConsistent

(* Nothing is recorded for a transaction that is refused by its images.    *)
LEMMA RejectImagesLemma ==
  ASSUME NEW p, PoolType(p), NEW id \in Tx, NEW relay
  PROVE  LET r == RejectImages(p, id, relay).pool IN
         /\ PoolType(r)
         /\ r.db = p.db
         /\ r.timed_out = p.timed_out
         /\ r.sorted = p.sorted
         /\ r.images = insert_key_images(p, id, relay)
  BY InsertImagesType DEF PoolType, RejectImages, Reject

(* A transaction kept by block is refused at its first input or not at     *)
(* all, for in a consistent pool its id is on all its images or on none.   *)
LEMMA RefusedKeepsImages ==
  ASSUME NEW p, PoolType(p), Consistent(p), NEW id \in Tx,
         ~ InsertsImages(p, id, relay_block)
  PROVE  insert_key_images(p, id, relay_block) = p.images
<1>1. vin[id] \in Seq(KeyImage) /\ p.images \in [KeyImage -> SUBSET Tx]
  BY TxAssumption DEF PoolType
<1>2. \A i \in DOMAIN vin[id] : vin[id][i] \in KeyImage /\ vin[id][i] \in Images(id)
  BY <1>1 DEF Images, Range
<1>3. \A i \in DOMAIN vin[id] : id \in p.images[vin[id][i]] <=> id \in DOMAIN p.db
  BY <1>2 DEF Consistent, ImagesMatch
<1>4. \A i \in DOMAIN vin[id] : RefusesImage(p, id, relay_block, i)
  BY <1>3 DEF InsertsImages, RefusesImage
<1>5. \A i \in DOMAIN vin[id] : i \in 1..i
  BY <1>1
<1> QED BY <1>1, <1>4, <1>5 DEF insert_key_images

(* An insertion for relay_method::block that fails halfway has inserted    *)
(* nothing that was not there.                                             *)
LEMMA RejectKeptConsistent ==
  ASSUME NEW p, PoolType(p), Consistent(p), NEW id \in Tx,
         ~ InsertsImages(p, id, relay_block)
  PROVE  Consistent(RejectImages(p, id, relay_block).pool)
  BY RejectImagesLemma, RefusedKeepsImages DEF Consistent, ImagesMatch

(* What have_tx_keyimges_as_spent rules out makes the insertion safe.      *)
LEMMA NotSpent ==
  ASSUME NEW p, PoolType(p), NEW id \in Tx, ~ have_tx_keyimges_as_spent(p, id)
  PROVE  /\ \A ki \in Images(id) : p.images[ki] \subseteq {id}
         /\ \A relay : InsertsImages(p, id, relay)
<1>1. \A ki \in Images(id) : p.images[ki] = {} \/ (p.images[ki] = {id} /\ ~ have_tx(p, id))
  BY DEF have_tx_keyimges_as_spent, have_tx_keyimg_as_spent
<1>2. \A i \in DOMAIN vin[id] : vin[id][i] \in Images(id)
  BY DEF Images, Range
<1>3. \A relay : \A i \in DOMAIN vin[id] : ~ RefusesImage(p, id, relay, i)
  BY <1>1, <1>2 DEF RefusesImage
<1> QED BY <1>1, <1>3 DEF InsertsImages

(* A row put into the pool, which is then pruned.                          *)
LEMMA AcceptInsert ==
  ASSUME NEW p, PoolType(p), NEW id \in Tx, NEW method \in RelayMethod,
         NEW seen \in BOOLEAN, NEW relay, NEW added,
         id \in DOMAIN p.db => p.db[id].method <= method
  PROVE  LET q == Accept(InsertTx(p, id, FreshMeta(method, seen), relay, added)).pool
         IN  /\ PoolType(q)
             /\ Extends(p, q, id, method)
             /\ Consistent(p) /\ InsertsImages(p, id, relay)
                  /\ (\/ method = relay_block
                      \/ \A ki \in Images(id) : p.images[ki] \subseteq {id})
                => Consistent(q)
<1> DEFINE meta == FreshMeta(method, seen)
           r == InsertTx(p, id, meta, relay, added)
           q == Accept(r).pool
<1>1. meta \in Meta /\ meta.method = method
  BY FreshMetaType
<1>2. PoolType(r) /\ r.db = PutRow(p.db, id, meta)
  BY <1>1, InsertTxType
<1>3. r.timed_out = p.timed_out
  BY DEF InsertTx, PoolType
<1> HIDE DEF meta, q
<1>4. /\ PoolType(q)
      /\ Consistent(r) => Consistent(q)
      /\ DOMAIN q.db \subseteq DOMAIN r.db
      /\ \A t \in DOMAIN q.db : q.db[t] = r.db[t]
      /\ q.timed_out = r.timed_out
  BY <1>2, AcceptLemma DEF q
<1>5. /\ DOMAIN r.db = DOMAIN p.db \cup {id}
      /\ r.db[id] = meta
      /\ \A t \in DOMAIN p.db \ {id} : r.db[t] = p.db[t]
  BY <1>2 DEF PutRow
<1>6. \A t \in DOMAIN p.db : p.db[t].method \in Int
  BY MethodType
<1> HIDE DEF r
<1>7. Extends(p, q, id, method)
  BY <1>1, <1>3, <1>4, <1>5, <1>6 DEF Extends
<1>8. ASSUME Consistent(p), InsertsImages(p, id, relay),
             \/ method = relay_block
             \/ \A ki \in Images(id) : p.images[ki] \subseteq {id}
      PROVE  Consistent(q)
  BY <1>1, <1>4, <1>8, InsertTxConsistent DEF r
<1> QED BY <1>4, <1>7, <1>8 DEF q, r, meta

(* A pool extends itself.                                                  *)
LEMMA ExtendsSame ==
  ASSUME NEW p, PoolType(p), NEW q, NEW id, NEW relay,
         DOMAIN q.db \subseteq DOMAIN p.db,
         \A t \in DOMAIN q.db : q.db[t].method = p.db[t].method,
         q.timed_out = p.timed_out
  PROVE  Extends(p, q, id, relay)
  BY MethodType DEF Extends

(* add_tx of a kept transaction whose inputs fail.                         *)
LEMMA AddInvalidLemma ==
  ASSUME NEW p, PoolType(p), NEW id \in Tx
  PROVE  LET q == AddInvalidInputs(p, id).pool IN
         /\ PoolType(q)
         /\ Extends(p, q, id, relay_block)
         /\ Consistent(p) => Consistent(q)
<1> DEFINE seen == have_tx_keyimges_as_spent(p, id)
           q == AddInvalidInputs(p, id).pool
<1>1. seen \in BOOLEAN
  BY DEF have_tx_keyimges_as_spent
<1>2. relay_block \in RelayMethod
  BY DEF relay_block, RelayMethod
<1>3. id \in DOMAIN p.db => p.db[id].method <= relay_block
  BY MethodType DEF relay_block, RelayMethod
<1>4. CASE InsertsImages(p, id, relay_block)
  <2>1. q = Accept(InsertTx(p, id, FreshMeta(relay_block, seen), relay_block, TRUE)).pool
    BY <1>4 DEF AddInvalidInputs
  <2> HIDE DEF q, seen
  <2> QED BY <1>1, <1>2, <1>3, <1>4, <2>1, AcceptInsert DEF q
<1>5. CASE ~ InsertsImages(p, id, relay_block)
  <2>1. q = RejectImages(p, id, relay_block).pool
    BY <1>5 DEF AddInvalidInputs
  <2> HIDE DEF q
  <2>2. PoolType(q) /\ q.db = p.db /\ q.timed_out = p.timed_out
    BY <2>1, RejectImagesLemma
  <2>3. Consistent(p) => Consistent(q)
    BY <1>5, <2>1, RejectKeptConsistent
  <2> QED BY <2>2, <2>3, ExtendsSame DEF q
<1> QED BY <1>4, <1>5

(* A transaction whose inputs pass enters under its method, or under the   *)
(* one that ends the stem phase; what the pool already relays more widely  *)
(* stays as it is.                                                         *)
LEMMA AddValidLemma ==
  ASSUME NEW p, PoolType(p), NEW id \in Tx, NEW relay \in RelayMethod
  PROVE  LET q == AddValidInputs(p, id, relay).pool IN
         /\ PoolType(q)
         /\ Extends(p, q, id, relay)
         /\ Consistent(p) /\ (relay = relay_block \/ ~ have_tx_keyimges_as_spent(p, id))
              => Consistent(q)
<1> DEFINE existing == id \in DOMAIN p.db
           old == IF existing THEN p.db[id].method ELSE relay_none
           as  == IF existing /\ relay = relay_stem /\ old = relay_stem
                  THEN relay_fluff ELSE relay
           method == upgrade_relay_method(old, as)
           q == AddValidInputs(p, id, relay).pool
<1>1. old \in RelayMethod /\ as \in RelayMethod
  BY MethodType DEF RelayMethod, relay_none, relay_fluff
<1>2. /\ method \in RelayMethod
      /\ existing => p.db[id].method <= method
      /\ ~existing => method = relay
      /\ relay = relay_block => as = relay_block /\ method = relay_block
  BY <1>1 DEF upgrade_relay_method, RelayMethod, relay_none, relay_block, relay_stem
<1> HIDE DEF method
<1>3. CASE existing /\ as <= old
  <2>1. q = Accept(p).pool
    BY <1>3 DEF AddValidInputs
  <2> HIDE DEF q
  <2>2. /\ PoolType(q)
        /\ Consistent(p) => Consistent(q)
        /\ DOMAIN q.db \subseteq DOMAIN p.db
        /\ \A t \in DOMAIN q.db : q.db[t] = p.db[t]
        /\ q.timed_out = p.timed_out
    BY <2>1, AcceptLemma
  <2> QED BY <2>2, ExtendsSame DEF q
<1>4. CASE ~(existing /\ as <= old) /\ InsertsImages(p, id, as)
  <2>1. q = Accept(InsertTx(p, id, FreshMeta(method, FALSE), as, ~existing)).pool
    BY <1>4 DEF AddValidInputs, method
  <2> HIDE DEF q, as
  <2>2. /\ PoolType(q)
        /\ Extends(p, q, id, method)
        /\ Consistent(p) /\ (\/ method = relay_block
                            \/ \A ki \in Images(id) : p.images[ki] \subseteq {id})
             => Consistent(q)
    BY <1>2, <1>4, <2>1, AcceptInsert
  <2>3. Extends(p, q, id, relay)
    BY <1>2, <2>2 DEF Extends
  <2> QED BY <1>2, <2>2, <2>3, NotSpent DEF q
<1>5. CASE ~(existing /\ as <= old) /\ ~ InsertsImages(p, id, as)
  <2>1. q = RejectImages(p, id, as).pool
    BY <1>5 DEF AddValidInputs
  <2> HIDE DEF q, as
  <2>2. PoolType(q) /\ q.db = p.db /\ q.timed_out = p.timed_out
    BY <2>1, RejectImagesLemma
  <2>3. Consistent(p) /\ (relay = relay_block \/ ~ have_tx_keyimges_as_spent(p, id))
          => Consistent(q)
    BY <1>2, <1>5, <2>1, RejectKeptConsistent, NotSpent
  <2> QED BY <2>2, <2>3, ExtendsSame DEF q
<1> QED BY <1>3, <1>4, <1>5

(* Filling m_input_cache touches nothing else.                             *)
LEMMA CacheInputsLemma ==
  ASSUME NEW p, PoolType(p), NEW id \in Tx, NEW chain
  PROVE  LET q == CacheInputs(p, chain, id) IN
         /\ PoolType(q)
         /\ q.db = p.db /\ q.images = p.images /\ q.sorted = p.sorted
         /\ q.timed_out = p.timed_out
  BY DEF PoolType, CacheInputs

(* Two pools that differ in the caches, the weight and the marks only.     *)
LEMMA ConsistentSame ==
  ASSUME NEW p, NEW q, Consistent(p), q.images = p.images,
         q.sorted = p.sorted, DOMAIN q.db = DOMAIN p.db,
         \A t \in DOMAIN p.db : q.db[t].method = p.db[t].method
  PROVE  Consistent(q)
  BY DEF Consistent, ImagesMatch, InitSucceeds

(* mark_double_spend only sets the flag.                                   *)
LEMMA MarkLemma ==
  ASSUME NEW p, PoolType(p), NEW id
  PROVE  LET q == mark_double_spend(p, id) IN
         /\ PoolType(q)
         /\ DOMAIN q.db = DOMAIN p.db
         /\ \A t \in DOMAIN p.db : q.db[t].method = p.db[t].method
         /\ q.images = p.images /\ q.sorted = p.sorted
         /\ q.timed_out = p.timed_out
<1> DEFINE q == mark_double_spend(p, id)
           db == [t \in DOMAIN p.db |->
                    IF \E ki \in Images(id) : t \in p.images[ki]
                    THEN [p.db[t] EXCEPT !.double_spend_seen = TRUE] ELSE p.db[t]]
<1>1. /\ q.db = db
      /\ q.images = p.images /\ q.sorted = p.sorted
      /\ q.timed_out = p.timed_out
      /\ q.cache_ok = p.cache_ok /\ q.cache_bad = p.cache_bad
      /\ q \in [db : {q.db}, images : [KeyImage -> SUBSET Tx], weight : {q.weight},
               sorted : SUBSET Tx, timed_out : SUBSET Tx,
               cache_ok : SUBSET Tx, cache_bad : SUBSET Tx]
  BY DEF mark_double_spend, PoolType
<1>2. \A t \in DOMAIN p.db : db[t] \in Meta /\ db[t].method = p.db[t].method
  BY MethodType DEF Meta
<1>3. IsTable(db)
  BY <1>2 DEF IsTable, PoolType
<1> QED BY <1>1, <1>2, <1>3 DEF PoolType

(* add_tx, whatever becomes of the transaction, leaves a consistent pool,  *)
(* adds nothing but the transaction and lowers no relay method.            *)
LEMMA AddTxLemma ==
  ASSUME NEW p, PoolType(p), NEW chain, NEW id \in Tx,
         NEW relay \in RelayMethod, NEW version, NEW nic_version
  PROVE  LET r == add_tx(p, chain, id, relay, version, nic_version) IN
         /\ PoolType(r.pool)
         /\ Extends(p, r.pool, id, relay)
         /\ Consistent(p) => Consistent(r.pool)
         /\ relay # relay_block /\ id \in p.timed_out
              => r = [pool |-> p, ok |-> FALSE]
<1> DEFINE kept == relay = relay_block
           q == IF kept THEN p ELSE CacheInputs(p, chain, id)
           ok == IF kept THEN check_tx_inputs(chain, id) ELSE id \in q.cache_ok
           refused == RefusedAtOnce(p, id, kept, version, nic_version)
           spent == ~kept /\ have_tx_keyimges_as_spent(p, id)
           r == add_tx(p, chain, id, relay, version, nic_version)
<1>1. /\ PoolType(q)
      /\ q.db = p.db /\ q.images = p.images /\ q.sorted = p.sorted
      /\ q.timed_out = p.timed_out
  BY CacheInputsLemma
<1> HIDE DEF q
<1>2. Consistent(p) => Consistent(q)
  BY <1>1, ConsistentSame
<1>3. have_tx_keyimges_as_spent(q, id) <=> have_tx_keyimges_as_spent(p, id)
  BY <1>1 DEF have_tx_keyimges_as_spent, have_tx_keyimg_as_spent, have_tx
<1>4. r = IF refused THEN Reject(p)
          ELSE IF spent THEN Reject(mark_double_spend(p, id))
          ELSE IF ok THEN AddValidInputs(q, id, relay)
          ELSE IF kept THEN AddInvalidInputs(q, id)
          ELSE Reject(q)
  BY DEF add_tx, q
<1>5. relay # relay_block /\ id \in p.timed_out => refused
  BY DEF RefusedAtOnce
<1> HIDE DEF ok, refused, r
<1>6. \A m \in RelayMethod : \A s : Extends(q, s, id, m) => Extends(p, s, id, m)
  BY <1>1 DEF Extends
<1>7. CASE refused
  <2>1. r = [pool |-> p, ok |-> FALSE]
    BY <1>4, <1>7 DEF Reject
  <2> QED BY <2>1, ExtendsSame DEF r
<1>8. CASE ~refused /\ spent
  <2>1. r.pool = mark_double_spend(p, id)
    BY <1>4, <1>8 DEF Reject
  <2> QED BY <1>5, <1>8, <2>1, MarkLemma, ExtendsSame, ConsistentSame DEF r
<1>9. CASE ~refused /\ ~spent /\ ok
  <2>1. r = AddValidInputs(q, id, relay)
    BY <1>4, <1>9
  <2> QED BY <1>1, <1>2, <1>3, <1>5, <1>6, <1>9, <2>1, AddValidLemma DEF r
<1>10. CASE ~refused /\ ~spent /\ ~ok /\ kept
  <2>1. r = AddInvalidInputs(q, id)
    BY <1>4, <1>10
  <2> QED BY <1>1, <1>2, <1>5, <1>6, <1>10, <2>1, AddInvalidLemma DEF r
<1>11. CASE ~refused /\ ~spent /\ ~ok /\ ~kept
  <2>1. r.pool = q
    BY <1>4, <1>11 DEF Reject
  <2> QED BY <1>1, <1>2, <1>5, <1>11, <2>1, ExtendsSame DEF r
<1> QED BY <1>7, <1>8, <1>9, <1>10, <1>11

-----------------------------------------------------------------------------
(* The other methods.                                                      *)

(* q is p without some of its transactions.                                *)
Shrinks(p, q) ==
  /\ DOMAIN q.db \subseteq DOMAIN p.db
  /\ \A t \in DOMAIN q.db : q.db[t].method = p.db[t].method

(* take_tx removes what it is asked to and nothing else.                   *)
LEMMA TakeLemma ==
  ASSUME NEW p, PoolType(p), NEW S
  PROVE  LET q == take_txs(p, S) IN
         /\ PoolType(q)
         /\ Consistent(p) => Consistent(q)
         /\ Shrinks(p, q)
         /\ DOMAIN q.db = DOMAIN p.db \ S
         /\ q.timed_out = p.timed_out
<1>1. take_txs(p, S) = RemoveTxs(p, S \cap DOMAIN p.db)
  BY DEF take_txs
<1>2. RemoveTxs(p, S \cap DOMAIN p.db).timed_out = p.timed_out
  BY DEF RemoveTxs, PoolType
<1> QED BY <1>1, <1>2, RemoveTxsType, RemoveTxsConsistent DEF Shrinks

(* remove_stuck_transactions removes what it notes as timed out.           *)
LEMMA StuckLemma ==
  ASSUME NEW p, PoolType(p)
  PROVE  LET q == remove_stuck_transactions(p) IN
         /\ PoolType(q)
         /\ Consistent(p) => Consistent(q)
         /\ Shrinks(p, q)
         /\ q.timed_out = p.timed_out \cup StuckSet(p)
         /\ DOMAIN q.db \cap StuckSet(p) = {}
<1> DEFINE r == RemoveTxs(p, StuckSet(p))
           q == remove_stuck_transactions(p)
<1>1. PoolType(r) /\ (Consistent(p) => Consistent(r)) /\ Shrinks(p, r)
      /\ DOMAIN r.db \cap StuckSet(p) = {}
  BY RemoveTxsType, RemoveTxsConsistent DEF Shrinks
<1>2. r.timed_out = p.timed_out
  BY DEF RemoveTxs, PoolType
<1>3. q = [r EXCEPT !.timed_out = @ \cup StuckSet(p)]
  BY DEF remove_stuck_transactions
<1>4. StuckSet(p) \subseteq Tx
  BY MethodType DEF StuckSet
<1> HIDE DEF r, q
<1>5. /\ PoolType(q) /\ q.db = r.db /\ q.images = r.images /\ q.sorted = r.sorted
      /\ q.timed_out = p.timed_out \cup StuckSet(p)
  BY <1>1, <1>2, <1>3, <1>4 DEF PoolType
<1>6. Consistent(p) => Consistent(q)
  BY <1>1, <1>5, ConsistentSame
<1> QED BY <1>1, <1>5, <1>6 DEF q, Shrinks

(* Clearing m_input_cache leaves the rest of the pool alone.               *)
LEMMA ClearCacheLemma ==
  ASSUME NEW p, PoolType(p)
  PROVE  /\ PoolType(ClearCache(p))
         /\ Consistent(p) => Consistent(ClearCache(p))
         /\ ClearCache(p).db = p.db
         /\ ClearCache(p).timed_out = p.timed_out
<1>1. /\ PoolType(ClearCache(p)) /\ ClearCache(p).db = p.db
      /\ ClearCache(p).images = p.images /\ ClearCache(p).sorted = p.sorted
      /\ ClearCache(p).timed_out = p.timed_out
  BY DEF PoolType, ClearCache
<1> QED BY <1>1, ConsistentSame

(* init rebuilds a consistent pool from any table it accepts.              *)
LEMMA PoolFromLemma ==
  ASSUME NEW db, IsTable(db)
  PROVE  /\ PoolType(PoolFrom(db))
         /\ InitSucceeds(db) => Consistent(PoolFrom(db))
         /\ PoolFrom(db).db = db
         /\ PoolFrom(db).timed_out = {}
  BY DEF PoolFrom, PoolType, IsTable, Consistent, ImagesMatch

(* set_relayed keeps a transaction kept by block what it is.               *)
LEMMA SetRelayedLemma ==
  ASSUME NEW p, PoolType(p), NEW id \in Tx, NEW method \in RelayMethod \ {relay_block}
  PROVE  LET q == set_relayed(p, id, method) IN
         /\ PoolType(q)
         /\ Extends(p, q, id, method)
         /\ Consistent(p) => Consistent(q)
<1> DEFINE q == set_relayed(p, id, method)
           up == upgrade_relay_method(p.db[id].method, method)
<1>1. CASE id \notin DOMAIN p.db
  <2>1. q = p
    BY <1>1 DEF set_relayed
  <2> QED BY <2>1, ExtendsSame
<1>2. CASE id \in DOMAIN p.db
  <2>1. /\ up \in RelayMethod
        /\ p.db[id].method <= up
        /\ p.db[id].method = relay_block => up = relay_block
    BY <1>2, MethodType DEF upgrade_relay_method, RelayMethod, relay_block
  <2>2. q = [p EXCEPT !.db[id].method = up,
                      !.sorted = IF ~ Broadcasted(p.db[id].method) /\ Broadcasted(up)
                                 THEN @ \cup {id} ELSE @]
    BY <1>2 DEF set_relayed
  <2> HIDE DEF up, q
  <2>3. /\ PoolType(q) /\ q.images = p.images /\ q.timed_out = p.timed_out
        /\ q.db = [p.db EXCEPT ![id].method = up]
        /\ q.sorted \subseteq p.sorted \cup {id} /\ p.sorted \subseteq q.sorted
    <3>1. [p.db EXCEPT ![id].method = up] \in [DOMAIN p.db -> Meta]
      BY <1>2, <2>1 DEF PoolType, IsTable, Meta
    <3> QED BY <1>2, <2>1, <2>2, <3>1 DEF PoolType, IsTable
  <2>4. /\ DOMAIN q.db = DOMAIN p.db
        /\ q.db[id].method = up
        /\ \A t \in DOMAIN p.db \ {id} : q.db[t] = p.db[t]
    BY <1>2, <2>3, MethodType DEF Meta
  <2>5. Extends(p, q, id, method)
    BY <1>2, <2>1, <2>3, <2>4, MethodType DEF Extends
  <2>6. ASSUME Consistent(p) PROVE Consistent(q)
    BY <1>2, <2>1, <2>3, <2>4, <2>6 DEF Consistent, ImagesMatch, InitSucceeds
  <2> QED BY <2>3, <2>5, <2>6 DEF q
<1> QED BY <1>1, <1>2

(* A turn of validate: the transaction keeps its metadata or leaves, and   *)
(* so may others.                                                          *)
LEMMA ValidateLemma ==
  ASSUME NEW p, PoolType(p), NEW chain, NEW id \in Tx, NEW meta \in Meta,
         NEW version
  PROVE  LET q == validate_tx(p, chain, id, meta, version) IN
         /\ PoolType(q)
         /\ Consistent(p) => Consistent(q)
         /\ DOMAIN q.db \subseteq DOMAIN p.db
         /\ \A t \in DOMAIN q.db \ {id} : q.db[t].method = p.db[t].method
         /\ id \in DOMAIN q.db => q.db[id].method = meta.method
         /\ id \in DOMAIN q.db \cap p.timed_out => meta.method = relay_block
         /\ q.timed_out = p.timed_out
<1> DEFINE q == validate_tx(p, chain, id, meta, version)
           a == take_txs(p, {id})
           r == add_tx(a, chain, id, meta.method, version, 0)
<1>0. meta.method \in RelayMethod
  BY DEF Meta
<1>1. /\ PoolType(a) /\ (Consistent(p) => Consistent(a)) /\ Shrinks(p, a)
      /\ DOMAIN a.db = DOMAIN p.db \ {id} /\ a.timed_out = p.timed_out
  BY TakeLemma
<1>2. /\ PoolType(r.pool) /\ (Consistent(a) => Consistent(r.pool))
      /\ Extends(a, r.pool, id, meta.method)
      /\ meta.method # relay_block /\ id \in a.timed_out => r = [pool |-> a, ok |-> FALSE]
  BY <1>0, <1>1, AddTxLemma
<1>3. q = IF id \notin DOMAIN p.db THEN p
          ELSE IF r.ok /\ id \in DOMAIN r.pool.db THEN [r.pool EXCEPT !.db[id] = meta]
          ELSE r.pool
  BY DEF validate_tx
<1> HIDE DEF q, a, r
<1>4. /\ DOMAIN r.pool.db \subseteq DOMAIN p.db \cup {id}
      /\ \A t \in DOMAIN r.pool.db \ {id} : r.pool.db[t].method = p.db[t].method
      /\ id \in DOMAIN r.pool.db => r.pool.db[id].method = meta.method
      /\ r.pool.timed_out = p.timed_out
  BY <1>1, <1>2 DEF Extends, Shrinks
<1>5. id \in DOMAIN r.pool.db \cap p.timed_out => meta.method = relay_block
  BY <1>1, <1>2
<1>6. CASE id \notin DOMAIN p.db
  BY <1>3, <1>6 DEF q
<1>7. CASE id \in DOMAIN p.db /\ r.ok /\ id \in DOMAIN r.pool.db
  <2>1. q = [r.pool EXCEPT !.db[id] = meta]
    BY <1>3, <1>7
  <2>2. /\ q.db = [r.pool.db EXCEPT ![id] = meta]
        /\ PoolType(q) /\ q.images = r.pool.images /\ q.sorted = r.pool.sorted
        /\ q.timed_out = r.pool.timed_out
    BY <1>2, <2>1 DEF PoolType, IsTable
  <2>3. /\ DOMAIN q.db = DOMAIN r.pool.db
        /\ \A t \in DOMAIN q.db : q.db[t].method = r.pool.db[t].method
    BY <1>4, <1>7, <2>2
  <2>4. Consistent(p) => Consistent(q)
    BY <1>1, <1>2, <2>2, <2>3, ConsistentSame
  <2> QED BY <1>4, <1>5, <1>7, <2>2, <2>3, <2>4 DEF q
<1>8. CASE id \in DOMAIN p.db /\ ~(r.ok /\ id \in DOMAIN r.pool.db)
  <2>1. q = r.pool
    BY <1>3, <1>8
  <2> QED BY <1>1, <1>2, <1>4, <1>5, <1>8, <2>1 DEF q
<1> QED BY <1>6, <1>7, <1>8

-----------------------------------------------------------------------------
(* A non-empty set of naturals has a least element: with it the facts      *)
(* below are proved by least counterexample.                               *)
LEMMA LeastNat ==
  ASSUME NEW T \in SUBSET Nat, T # {}
  PROVE  \E m \in T : \A k \in T : m <= k
<1> DEFINE Less == {ss \in Nat \X Nat : ss[1] < ss[2]}
<1>1. \E x \in T : \A y \in T : ~ (<<y, x>> \in OpToRel(<, Nat))
  BY NatLessThanWellFounded, WFMin
<1>2. Less = OpToRel(<, Nat)
  BY Zenon DEF OpToRel
<1> HIDE DEF Less
<1>3. PICK x \in T : \A y \in T : ~ (<<y, x>> \in Less)
  BY <1>1, <1>2, Zenon
<1>4. ASSUME NEW y \in T PROVE x <= y
  <2>1. SUFFICES ASSUME y < x PROVE FALSE
    OBVIOUS
  <2>2. <<y, x>> \in Less
    BY <2>1 DEF Less
  <2> QED
    BY <2>2, <1>3
<1> QED
  BY <1>4

-----------------------------------------------------------------------------
(* Weights.  WeightOf is a fold that chooses its elements; the lemmas      *)
(* below make it a sum.                                                    *)

FiniteTxs == {S \in SUBSET Tx : IsFiniteSet(S)}

Chosen(s) == CHOOSE x \in s : TRUE

(* The function the fold is defined by: what it computes from g for the    *)
(* subsets of S.                                                           *)
Turn(S, g) == [s \in SUBSET S |->
                 IF s = {} THEN 0 ELSE tx_weight[Chosen(s)] + g[s \ {Chosen(s)}]]
Walk(S) == CHOOSE g : g = Turn(S, g)

(* What is used of the cardinality of a set of transactions.               *)
LEMMA FiniteFacts ==
  ASSUME NEW S \in FiniteTxs
  PROVE  /\ Cardinality(S) \in Nat
         /\ Cardinality(S) = 0 <=> S = {}
         /\ \A x \in S : /\ S \ {x} \in FiniteTxs
                         /\ Cardinality(S \ {x}) = Cardinality(S) - 1
                         /\ Cardinality(S \ {x}) \in Nat
         /\ \A T \in SUBSET S : /\ T \in FiniteTxs
                                /\ Cardinality(T) <= Cardinality(S)
                                /\ T # S => Cardinality(T) < Cardinality(S)
         /\ S # {} => Chosen(S) \in S
         /\ \A x \in S : tx_weight[x] \in Nat \ {0}
<1>1. IsFiniteSet(S)
  BY DEF FiniteTxs
<1>2. Cardinality(S) \in Nat /\ (Cardinality(S) = 0 <=> S = {})
  BY <1>1, FS_CardinalityType, FS_EmptySet
<1>3. ASSUME NEW x \in S
      PROVE  /\ S \ {x} \in FiniteTxs
             /\ Cardinality(S \ {x}) = Cardinality(S) - 1
             /\ Cardinality(S \ {x}) \in Nat
  <2>1. IsFiniteSet(S \ {x}) /\ Cardinality(S \ {x}) = Cardinality(S) - 1
    BY <1>1, FS_RemoveElement
  <2>2. Cardinality(S \ {x}) \in Nat
    BY <2>1, FS_CardinalityType
  <2> QED
    BY <2>1, <2>2 DEF FiniteTxs
<1>4. ASSUME NEW T \in SUBSET S
      PROVE  /\ T \in FiniteTxs
             /\ Cardinality(T) <= Cardinality(S)
             /\ T # S => Cardinality(T) < Cardinality(S)
  <2>1. IsFiniteSet(T) /\ Cardinality(T) <= Cardinality(S)
        /\ (Cardinality(S) = Cardinality(T) => S = T)
    BY <1>1, FS_Subset
  <2>2. Cardinality(T) \in Nat
    BY <2>1, FS_CardinalityType
  <2> QED
    BY <1>2, <2>1, <2>2 DEF FiniteTxs
<1>5. S # {} => Chosen(S) \in S
  BY DEF Chosen
<1>6. \A x \in S : tx_weight[x] \in Nat \ {0}
  BY TxAssumption DEF FiniteTxs
<1> QED
  BY <1>2, <1>3, <1>4, <1>5, <1>6

(* The recursive function of the fold exists.                              *)
LEMMA WalkExists ==
  ASSUME NEW S \in FiniteTxs
  PROVE  Walk(S) = Turn(S, Walk(S))
<1> DEFINE Agree(g, k) == \A s \in SUBSET S :
                            Cardinality(s) <= k => g[s] = Turn(S, g)[s]
<1>1. ASSUME NEW k \in Nat, NEW g, Agree(g, k)
      PROVE  Agree(Turn(S, g), k + 1)
  <2> SUFFICES ASSUME NEW s \in SUBSET S, Cardinality(s) <= k + 1
               PROVE  Turn(S, g)[s] = Turn(S, Turn(S, g))[s]
    BY Zenon
  <2>1. CASE s = {}
    BY <2>1 DEF Turn
  <2>2. CASE s # {}
    <3> DEFINE r == s \ {Chosen(s)}
    <3>1. r \in SUBSET S /\ Cardinality(r) <= k
      <4>1. s \in FiniteTxs
        BY FiniteFacts
      <4>2. Cardinality(r) = Cardinality(s) - 1 /\ Cardinality(s) \in Nat
        BY <2>2, <4>1, FiniteFacts
      <4> QED
        BY <4>2
    <3>2. g[r] = Turn(S, g)[r]
      BY <1>1, <3>1
    <3>3. Turn(S, g)[s] = tx_weight[Chosen(s)] + g[r]
      BY <2>2 DEF Turn
    <3>4. Turn(S, Turn(S, g))[s] = tx_weight[Chosen(s)] + Turn(S, g)[r]
      BY <2>2 DEF Turn
    <3> QED
      BY <3>2, <3>3, <3>4
  <2> QED
    BY <2>1, <2>2
<1>2. \A k \in Nat : \E g : Agree(g, k)
  <2> DEFINE Bad == {k \in Nat : ~ \E g : Agree(g, k)}
  <2>1. SUFFICES ASSUME Bad # {} PROVE FALSE
    BY Zenon
  <2>2. PICK k \in Bad : \A j \in Bad : k <= j
    BY <2>1, LeastNat
  <2>3. Bad \subseteq Nat
    OBVIOUS
  <2> HIDE DEF Bad
  <2>4. k \in Nat /\ \A j \in Nat : j < k => j \notin Bad
    BY <2>2, <2>3
  <2>5. CASE k = 0
    <3> DEFINE g == Turn(S, <<>>)
    <3>1. ASSUME NEW s \in SUBSET S, Cardinality(s) <= 0 PROVE g[s] = Turn(S, g)[s]
      <4>1. s \in FiniteTxs
        BY FiniteFacts
      <4>2. s = {}
        BY <3>1, <4>1, FiniteFacts
      <4> QED
        BY <4>2 DEF Turn
    <3>2. Agree(g, 0)
      BY Zenon, <3>1
    <3> QED
      BY Zenon, <2>2, <2>5, <3>2 DEF Bad
  <2>6. CASE k # 0
    <3>1. k - 1 \in Nat /\ k - 1 \notin Bad /\ (k - 1) + 1 = k
      BY <2>4, <2>6
    <3>2. PICK g : Agree(g, k - 1)
      BY Zenon, <3>1 DEF Bad
    <3>3. Agree(Turn(S, g), (k - 1) + 1)
      BY Zenon, <3>1, <3>2, <1>1
    <3>4. Agree(Turn(S, g), k)
      BY Zenon, <3>1, <3>3
    <3> QED
      BY Zenon, <2>2, <3>4 DEF Bad
  <2> QED
    BY <2>5, <2>6
<1>3. PICK g : Agree(g, Cardinality(S))
  BY Zenon, <1>2, FiniteFacts
<1>4. \A s \in SUBSET S : Cardinality(s) <= Cardinality(S)
  BY FiniteFacts
<1>5. \A s \in SUBSET S : g[s] = Turn(S, g)[s]
  BY Zenon, <1>3, <1>4
<1>6. Turn(S, g) = Turn(S, Turn(S, g))
  <2>1. \A s \in SUBSET S : s # {} => s \ {Chosen(s)} \in SUBSET S
    OBVIOUS
  <2>2. \A s \in SUBSET S : Turn(S, g)[s] = Turn(S, Turn(S, g))[s]
    BY <1>5, <2>1 DEF Turn
  <2> QED
    BY <2>2 DEF Turn
<1> QED
  BY Zenon, <1>6 DEF Walk

(* The fold is that function at the set itself.                            *)
LEMMA WeightIsWalk ==
  ASSUME NEW S
  PROVE  WeightOf(S) = Walk(S)[S]
BY DEF WeightOf, MapThenSumSet, MapThenFoldSet, Walk, Turn, Chosen

(* Within a larger set the fold gives a subset its weight.                 *)
LEMMA WalkIsWeight ==
  \A S \in FiniteTxs : \A U \in SUBSET S : Walk(S)[U] = WeightOf(U)
<1> DEFINE Bad == {k \in Nat : \E S \in FiniteTxs : \E U \in SUBSET S :
                     Cardinality(U) = k /\ Walk(S)[U] # WeightOf(U)}
<1>1. ASSUME NEW S \in FiniteTxs, NEW U \in SUBSET S, Walk(S)[U] # WeightOf(U)
      PROVE  Cardinality(U) \in Bad
  <2>1. U \in FiniteTxs
    BY FiniteFacts
  <2>2. Cardinality(U) \in Nat
    BY <2>1, FiniteFacts
  <2> QED
    BY <1>1, <2>2
<1>2. SUFFICES ASSUME Bad # {} PROVE FALSE
  BY Zenon, <1>1
<1>3. PICK k \in Bad : \A j \in Bad : k <= j
  BY <1>2, LeastNat
<1>4. k \in Nat
  OBVIOUS
<1>a. PICK S \in FiniteTxs : \E U \in SUBSET S :
        Cardinality(U) = k /\ Walk(S)[U] # WeightOf(U)
  BY Zenon, <1>3
<1>5. PICK U \in SUBSET S : Cardinality(U) = k /\ Walk(S)[U] # WeightOf(U)
  BY Zenon, <1>a
<1> HIDE DEF Bad
<1> DEFINE c == Chosen(U)
           r == U \ {c}
<1>6. U \in FiniteTxs
  BY FiniteFacts
<1>7. Walk(S)[U] = IF U = {} THEN 0 ELSE tx_weight[c] + Walk(S)[r]
  <2>1. Walk(S) = Turn(S, Walk(S))
    BY WalkExists
  <2>2. Turn(S, Walk(S))[U] = IF U = {} THEN 0 ELSE tx_weight[c] + Walk(S)[r]
    BY DEF Turn
  <2> QED
    BY <2>1, <2>2
<1>8. WeightOf(U) = IF U = {} THEN 0 ELSE tx_weight[c] + Walk(U)[r]
  <2>1. Walk(U) = Turn(U, Walk(U))
    BY <1>6, WalkExists
  <2>2. Turn(U, Walk(U))[U] = IF U = {} THEN 0 ELSE tx_weight[c] + Walk(U)[r]
    BY DEF Turn
  <2>3. WeightOf(U) = Walk(U)[U]
    BY WeightIsWalk
  <2> QED
    BY <2>1, <2>2, <2>3
<1>9. U # {}
  BY <1>5, <1>7, <1>8
<1>10. Cardinality(r) < k /\ Cardinality(r) \in Nat
  <2>1. Cardinality(r) = Cardinality(U) - 1 /\ Cardinality(r) \in Nat
    BY <1>6, <1>9, FiniteFacts
  <2> QED
    BY <1>4, <1>5, <2>1
<1>11. Cardinality(r) \notin Bad
  <2> HIDE DEF r
  <2> QED
    BY <1>3, <1>4, <1>10
<1>12. Walk(S)[r] = WeightOf(r) /\ Walk(U)[r] = WeightOf(r)
  <2>1. r \in SUBSET S /\ r \in SUBSET U
    OBVIOUS
  <2> HIDE DEF r
  <2> QED
    BY Zenon, <1>1, <1>6, <1>11, <2>1
<1> QED
  BY <1>5, <1>7, <1>8, <1>12

(* No transactions weigh nothing; others, one of them and the rest.        *)
LEMMA WeightChosen ==
  ASSUME NEW S \in FiniteTxs
  PROVE  WeightOf(S) = IF S = {} THEN 0
                       ELSE tx_weight[Chosen(S)] + WeightOf(S \ {Chosen(S)})
<1>1. Walk(S) = Turn(S, Walk(S)) /\ WeightOf(S) = Walk(S)[S]
  BY WalkExists, WeightIsWalk
<1>2. Turn(S, Walk(S))[S] = IF S = {} THEN 0
        ELSE tx_weight[Chosen(S)] + Walk(S)[S \ {Chosen(S)}]
  BY DEF Turn
<1>3. Walk(S)[S \ {Chosen(S)}] = WeightOf(S \ {Chosen(S)})
  BY WalkIsWeight
<1> QED
  BY <1>1, <1>2, <1>3

(* A weight is a number.                                                   *)
LEMMA WeightType == \A S \in FiniteTxs : WeightOf(S) \in Nat
<1> DEFINE Bad == {k \in Nat : \E S \in FiniteTxs :
                     Cardinality(S) = k /\ WeightOf(S) \notin Nat}
<1>1. ASSUME NEW S \in FiniteTxs, WeightOf(S) \notin Nat
      PROVE  Cardinality(S) \in Bad
  BY <1>1, FiniteFacts
<1>2. SUFFICES ASSUME Bad # {} PROVE FALSE
  BY Zenon, <1>1
<1>3. PICK k \in Bad : \A j \in Bad : k <= j
  BY <1>2, LeastNat
<1>4. PICK S \in FiniteTxs : Cardinality(S) = k /\ WeightOf(S) \notin Nat
  BY Zenon, <1>3
<1> HIDE DEF Bad
<1> DEFINE r == S \ {Chosen(S)}
<1>5. S # {}
  BY <1>4, WeightChosen
<1>6. /\ r \in FiniteTxs /\ Cardinality(r) \in Nat /\ Cardinality(r) < k
      /\ k \in Nat /\ tx_weight[Chosen(S)] \in Nat
  BY <1>4, <1>5, FiniteFacts
<1>7. WeightOf(S) = tx_weight[Chosen(S)] + WeightOf(r)
  BY <1>5, WeightChosen
<1> HIDE DEF r
<1>8. Cardinality(r) \notin Bad
  BY <1>3, <1>6
<1>9. WeightOf(r) \in Nat
  BY Zenon, <1>1, <1>6, <1>8
<1> QED
  BY <1>4, <1>6, <1>7, <1>9

(* Any of the transactions can be taken off the sum.                       *)
LEMMA WeightMinus ==
  \A S \in FiniteTxs : \A x \in S :
    WeightOf(S) = tx_weight[x] + WeightOf(S \ {x})
<1> DEFINE Holds(S) == \A x \in S : WeightOf(S) = tx_weight[x] + WeightOf(S \ {x})
           Bad == {k \in Nat : \E S \in FiniteTxs :
                     Cardinality(S) = k /\ ~ Holds(S)}
<1>1. ASSUME NEW S \in FiniteTxs, ~ Holds(S)
      PROVE  Cardinality(S) \in Bad
  <2>1. Cardinality(S) \in Nat
    BY FiniteFacts
  <2> QED
    BY Zenon, <1>1, <2>1
<1>2. SUFFICES ASSUME Bad # {} PROVE FALSE
  BY Zenon, <1>1
<1>3. PICK k \in Bad : \A j \in Bad : k <= j
  BY <1>2, LeastNat
<1>4. PICK S \in FiniteTxs : Cardinality(S) = k /\ ~ Holds(S)
  BY Zenon, <1>3
<1> HIDE DEF Bad
<1>5. PICK x \in S : WeightOf(S) # tx_weight[x] + WeightOf(S \ {x})
  BY Zenon, <1>4
<1> DEFINE c == Chosen(S)
           r == S \ {c}
           t == S \ {x}
           u == (S \ {c}) \ {x}
<1>6. c \in S /\ WeightOf(S) = tx_weight[c] + WeightOf(r)
  BY FiniteFacts, WeightChosen
<1>7. /\ c # x /\ x \in r /\ c \in t /\ t \ {c} = u
  BY <1>5, <1>6
<1>8. /\ r \in FiniteTxs /\ t \in FiniteTxs /\ k \in Nat
      /\ Cardinality(r) \in Nat /\ Cardinality(r) < k
      /\ Cardinality(t) \in Nat /\ Cardinality(t) < k
      /\ tx_weight[c] \in Nat /\ tx_weight[x] \in Nat
  BY <1>4, <1>6, FiniteFacts
<1>9. u \in FiniteTxs
  BY <1>7, <1>8, FiniteFacts
<1>10. r \ {x} = u
  OBVIOUS
<1> HIDE DEF c, r, t, u, Holds
<1>11. Cardinality(r) \notin Bad /\ Cardinality(t) \notin Bad
  BY <1>3, <1>8
<1>12. Holds(r) /\ Holds(t)
  BY Zenon, <1>1, <1>8, <1>11
<1>13. WeightOf(r) = tx_weight[x] + WeightOf(u)
  BY <1>7, <1>10, <1>12 DEF Holds
<1>14. WeightOf(t) = tx_weight[c] + WeightOf(u)
  BY <1>7, <1>12 DEF Holds
<1>15. WeightOf(u) \in Nat
  BY <1>9, WeightType
<1>16. WeightOf(S) = tx_weight[x] + WeightOf(t)
  BY <1>6, <1>8, <1>13, <1>14, <1>15
<1> QED
  BY <1>5, <1>16 DEF t

(* The weight of a set is that of a part of it and of what is left.        *)
LEMMA WeightSplits ==
  \A S \in FiniteTxs : \A T \in SUBSET S :
    WeightOf(S) = WeightOf(T) + WeightOf(S \ T)
<1> DEFINE Bad == {k \in Nat : \E S \in FiniteTxs : \E T \in SUBSET S :
                     /\ Cardinality(T) = k
                     /\ WeightOf(S) # WeightOf(T) + WeightOf(S \ T)}
<1>1. ASSUME NEW S \in FiniteTxs, NEW T \in SUBSET S,
             WeightOf(S) # WeightOf(T) + WeightOf(S \ T)
      PROVE  Cardinality(T) \in Bad
  <2>1. T \in FiniteTxs
    BY FiniteFacts
  <2>2. Cardinality(T) \in Nat
    BY <2>1, FiniteFacts
  <2> QED
    BY <1>1, <2>2
<1>2. SUFFICES ASSUME Bad # {} PROVE FALSE
  BY Zenon, <1>1
<1>3. PICK k \in Bad : \A j \in Bad : k <= j
  BY <1>2, LeastNat
<1>4. PICK S \in FiniteTxs : \E T \in SUBSET S :
        Cardinality(T) = k /\ WeightOf(S) # WeightOf(T) + WeightOf(S \ T)
  BY Zenon, <1>3
<1>5. PICK T \in SUBSET S :
        Cardinality(T) = k /\ WeightOf(S) # WeightOf(T) + WeightOf(S \ T)
  BY Zenon, <1>4
<1> HIDE DEF Bad
<1>6. T \in FiniteTxs /\ WeightOf(S) \in Nat /\ WeightOf(T) \in Nat
  BY FiniteFacts, WeightType
<1>7. T # {}
  <2> SUFFICES ASSUME T = {} PROVE FALSE
    OBVIOUS
  <2>1. WeightOf(T) = 0 /\ S \ T = S
    BY <1>6, WeightChosen
  <2> QED
    BY <1>5, <1>6, <2>1
<1>8. PICK x \in T : TRUE
  BY <1>7
<1> DEFINE s == S \ {x}
           t == T \ {x}
<1>9. /\ s \in FiniteTxs /\ t \in SUBSET s /\ t \in FiniteTxs /\ s \ t = S \ T
      /\ Cardinality(t) \in Nat /\ Cardinality(t) < k
      /\ k \in Nat /\ tx_weight[x] \in Nat
  <2>1. s \in FiniteTxs
    BY FiniteFacts
  <2>2. t \in FiniteTxs /\ Cardinality(t) = Cardinality(T) - 1
        /\ Cardinality(t) \in Nat /\ Cardinality(T) \in Nat
        /\ tx_weight[x] \in Nat
    BY <1>6, FiniteFacts
  <2>3. t \in SUBSET s /\ s \ t = S \ T
    OBVIOUS
  <2> QED
    BY <1>5, <2>1, <2>2, <2>3
<1>10. WeightOf(S) = tx_weight[x] + WeightOf(s) /\ WeightOf(T) = tx_weight[x] + WeightOf(t)
  BY <1>6, WeightMinus
<1> HIDE DEF s, t
<1>11. Cardinality(t) \notin Bad
  BY <1>3, <1>9
<1>12. WeightOf(s) = WeightOf(t) + WeightOf(S \ T)
  BY <1>1, <1>9, <1>11
<1>13. WeightOf(t) \in Nat /\ WeightOf(S \ T) \in Nat
  <2>1. S \ T \in FiniteTxs
    BY FiniteFacts
  <2> QED
    BY <1>9, <2>1, WeightType
<1> QED
  BY <1>5, <1>9, <1>10, <1>12, <1>13

(* One transaction more.                                                   *)
LEMMA WeightPlus ==
  ASSUME NEW S \in FiniteTxs, NEW x \in Tx
  PROVE  /\ S \cup {x} \in FiniteTxs
         /\ x \notin S => WeightOf(S \cup {x}) = WeightOf(S) + tx_weight[x]
<1>1. S \cup {x} \in FiniteTxs
  BY FS_AddElement DEF FiniteTxs
<1>2. ASSUME x \notin S PROVE WeightOf(S \cup {x}) = WeightOf(S) + tx_weight[x]
  <2>1. (S \cup {x}) \ {x} = S
    BY <1>2
  <2>2. WeightOf(S) \in Nat /\ tx_weight[x] \in Nat
    BY WeightType, TxAssumption
  <2>3. WeightOf(S \cup {x}) = tx_weight[x] + WeightOf(S)
    <3> DEFINE T == S \cup {x}
    <3>1. T \in FiniteTxs /\ x \in T /\ T \ {x} = S
      BY <1>1, <2>1
    <3> HIDE DEF T
    <3>2. WeightOf(T) = tx_weight[x] + WeightOf(S)
      BY Zenon, <3>1, WeightMinus
    <3> QED
      BY <3>2 DEF T
  <2> QED
    BY <2>2, <2>3
<1> QED
  BY <1>1, <1>2

-----------------------------------------------------------------------------
(* The weight of the pool.                                                 *)

(* m_txpool_weight covers the finitely many transactions of the table.     *)
Weighed(p) ==
  /\ DOMAIN p.db \in FiniteTxs
  /\ p.weight \in Nat
  /\ p.weight >= WeightOf(DOMAIN p.db)

(* A pool over its limit has nothing to evict.                             *)
Bounded(p) ==
  p.weight > MaxPoolWeight =>
    \A id \in DOMAIN p.db :
      \/ KeptByBlock(p, id)
      \/ \A other \in DOMAIN p.db : ~ HigherRate(other, id)

(* Both.                                                                   *)
Fits(p) == Weighed(p) /\ Bounded(p)

(* The order of the fee rates is transitive, for weights are positive.     *)
LEMMA RateTransitive ==
  ASSUME NEW r \in Tx, NEW s \in Tx, NEW t \in Tx,
         HigherRate(r, s), HigherRate(s, t)
  PROVE  HigherRate(r, t) /\ ~ HigherRate(t, t)
<1> DEFINE a == fee[r]
           b == fee[s]
           c == fee[t]
           x == tx_weight[r]
           y == tx_weight[s]
           z == tx_weight[t]
<1>1. /\ a \in Nat /\ b \in Nat /\ c \in Nat
      /\ x \in Nat \ {0} /\ y \in Nat \ {0} /\ z \in Nat \ {0}
  BY TxAssumption
<1>2. a * y > b * x /\ b * z > c * y
  BY DEF HigherRate
<1> HIDE DEF a, b, c, x, y, z
<1>3. (a * y) * z > (b * x) * z
  BY <1>1, <1>2
<1>4. (b * z) * x > (c * y) * x
  BY <1>1, <1>2
<1>5. (b * x) * z = (b * z) * x
  BY <1>1
<1>6. (a * z) * y > (c * x) * y
  BY <1>1, <1>3, <1>4, <1>5
<1>7. a * z > c * x
  BY <1>1, <1>6
<1>8. ~ (c * z > c * z)
  BY <1>1
<1> QED
  BY <1>7, <1>8 DEF HigherRate, a, b, c, x, y, z

(* What is removed from the table is taken off the weight.                 *)
LEMMA RemoveWeighed ==
  ASSUME NEW p, PoolType(p), Weighed(p), NEW S \in SUBSET DOMAIN p.db
  PROVE  /\ Weighed(RemoveTxs(p, S))
         /\ RemoveTxs(p, S).weight = p.weight - WeightOf(S)
         /\ RemoveTxs(p, S).weight <= p.weight
         /\ WeightOf(S) \in Nat
<1> DEFINE D == DOMAIN p.db
           q == RemoveTxs(p, S)
<1>1. /\ D \in FiniteTxs /\ S \in FiniteTxs /\ D \ S \in FiniteTxs
      /\ p.weight \in Nat /\ p.weight >= WeightOf(D)
  BY FiniteFacts DEF Weighed
<1>2. WeightOf(D) = WeightOf(S) + WeightOf(D \ S)
  BY <1>1, WeightSplits
<1>3. WeightOf(S) \in Nat /\ WeightOf(D \ S) \in Nat
  BY <1>1, WeightType
<1>4. DOMAIN q.db = D \ S
  BY RemoveTxsType
<1>5. q.weight = reduce_txpool_weight(p.weight, WeightOf(S))
  BY DEF RemoveTxs, PoolType
<1> HIDE DEF q, D
<1>6. q.weight = p.weight - WeightOf(S)
  BY <1>1, <1>2, <1>3, <1>5 DEF reduce_txpool_weight
<1>7. Weighed(q)
  BY <1>1, <1>2, <1>3, <1>4, <1>6 DEF Weighed
<1> QED
  BY <1>1, <1>3, <1>6, <1>7 DEF q

(* A removal leaves nothing to evict where there was nothing.              *)
LEMMA RemoveFits ==
  ASSUME NEW p, PoolType(p), Fits(p), NEW S \in SUBSET DOMAIN p.db
  PROVE  Fits(RemoveTxs(p, S))
<1> DEFINE q == RemoveTxs(p, S)
<1>1. Weighed(q) /\ q.weight <= p.weight /\ q.weight \in Nat /\ p.weight \in Nat
  BY RemoveWeighed DEF Fits, Weighed
<1>2. /\ DOMAIN q.db \subseteq DOMAIN p.db
      /\ \A t \in DOMAIN q.db : q.db[t] = p.db[t]
  BY RemoveTxsType
<1> HIDE DEF q
<1>3. Bounded(q)
  <2> SUFFICES ASSUME q.weight > MaxPoolWeight, NEW id \in DOMAIN q.db
               PROVE  \/ KeptByBlock(q, id)
                      \/ \A other \in DOMAIN q.db : ~ HigherRate(other, id)
    BY DEF Bounded
  <2>1. p.weight > MaxPoolWeight
    BY <1>1, TxAssumption
  <2>2. \/ KeptByBlock(p, id)
        \/ \A other \in DOMAIN p.db : ~ HigherRate(other, id)
    BY <1>2, <2>1 DEF Fits, Bounded
  <2> QED
    BY <1>2, <2>2 DEF KeptByBlock
<1> QED
  BY <1>1, <1>3 DEF Fits, q

(* prune: the lowest of the evictable transactions it leaves is one above  *)
(* which the weight no longer exceeds the limit.                           *)
LEMMA PruneFits ==
  ASSUME NEW p, PoolType(p), p.sorted = DOMAIN p.db, Weighed(p)
  PROVE  Fits(prune(p))
<1> DEFINE evictable == {id \in p.sorted :
                           /\ \E other \in p.sorted : HigherRate(other, id)
                           /\ id \in DOMAIN p.db
                           /\ ~ KeptByBlock(p, id)}
           below(id) == {t \in evictable : HigherRate(id, t)}
           P == PruneSet(p)
           q == RemoveTxs(p, P)
<1>1. P = {id \in evictable : p.weight > MaxPoolWeight + WeightOf(below(id))}
  BY DEF PruneSet
<1>2. /\ p.sorted = DOMAIN p.db /\ DOMAIN p.db \in FiniteTxs
      /\ p.weight \in Nat /\ DOMAIN p.db \subseteq Tx
  BY DEF Weighed, FiniteTxs
<1>3. evictable \subseteq DOMAIN p.db /\ P \subseteq evictable
  BY <1>1
<1>4. /\ Weighed(q) /\ q.weight = p.weight - WeightOf(P)
      /\ WeightOf(P) \in Nat
  BY <1>3, RemoveWeighed
<1>5. /\ DOMAIN q.db = DOMAIN p.db \ P
      /\ \A t \in DOMAIN q.db : q.db[t] = p.db[t]
  BY RemoveTxsType
<1>6. ASSUME NEW id \in evictable, id \notin P
      PROVE  q.weight <= MaxPoolWeight
  <2> DEFINE Left == evictable \ P
             Sizes == {k \in Nat : \E t \in Left : Cardinality(below(t)) = k}
  <2>1. \A t \in Left : /\ below(t) \in FiniteTxs
                        /\ Cardinality(below(t)) \in Nat
    <3> SUFFICES ASSUME NEW t \in Left
                 PROVE  below(t) \in FiniteTxs /\ Cardinality(below(t)) \in Nat
      OBVIOUS
    <3>1. below(t) \in FiniteTxs
      BY <1>2, <1>3, FiniteFacts
    <3> QED
      BY <3>1, FiniteFacts
  <2>2. Sizes # {}
    BY <1>6, <2>1
  <2>3. PICK k \in Sizes : \A j \in Sizes : k <= j
    BY <2>2, LeastNat
  <2>4. PICK m \in Left : Cardinality(below(m)) = k
    OBVIOUS
  <2> HIDE DEF evictable, P
  <2>5. below(m) \subseteq P
    <3> SUFFICES ASSUME NEW t \in below(m), t \notin P PROVE FALSE
      OBVIOUS
    <3>1. t \in Left /\ HigherRate(m, t) /\ m \in Tx /\ t \in Tx
      BY <1>2, <1>3
    <3>2. below(t) \subseteq below(m) /\ t \notin below(t)
      <4>1. ASSUME NEW u \in below(t) PROVE u \in below(m) /\ u # t
        <5>1. u \in Tx /\ HigherRate(t, u) /\ u \in evictable
          BY <1>2, <1>3, <4>1
        <5>2. HigherRate(m, u) /\ ~ HigherRate(u, u)
          BY <3>1, <5>1, RateTransitive
        <5> QED
          BY <5>1, <5>2
      <4> QED
        BY <4>1
    <3>3. below(t) # below(m)
      BY <3>2
    <3>4. Cardinality(below(t)) < Cardinality(below(m))
      BY <2>1, <3>2, <3>3, FiniteFacts
    <3>5. Cardinality(below(t)) \in Sizes
      BY <2>1, <3>1
    <3>6. k <= Cardinality(below(t)) /\ k \in Nat
      BY <2>3, <3>5
    <3>7. Cardinality(below(t)) \in Nat /\ Cardinality(below(t)) < k
      BY <2>1, <2>4, <3>1, <3>4
    <3> HIDE DEF below
    <3> QED
      BY <3>6, <3>7
  <2>6. WeightOf(below(m)) <= WeightOf(P)
    <3>1. P \in FiniteTxs
      BY <1>2, <1>3, FiniteFacts
    <3> DEFINE B == below(m)
    <3>2. B \in SUBSET P
      BY <2>5
    <3> HIDE DEF B
    <3>3. WeightOf(P) = WeightOf(B) + WeightOf(P \ B)
      BY <3>1, <3>2, WeightSplits
    <3>4. B \in FiniteTxs /\ P \ B \in FiniteTxs
      BY <3>1, <3>2, FiniteFacts
    <3>5. WeightOf(B) \in Nat /\ WeightOf(P \ B) \in Nat
      BY <3>4, WeightType
    <3> QED
      BY <3>3, <3>5 DEF B
  <2>7. ~ (p.weight > MaxPoolWeight + WeightOf(below(m)))
    BY <1>1, <2>4
  <2>8. WeightOf(below(m)) \in Nat
    BY <2>1, WeightType
  <2>9. MaxPoolWeight \in Nat
    BY TxAssumption
  <2> QED
    BY <1>2, <1>4, <2>6, <2>7, <2>8, <2>9
<1>7. Bounded(q)
  <2> SUFFICES ASSUME q.weight > MaxPoolWeight, NEW id \in DOMAIN q.db,
                      ~ KeptByBlock(q, id),
                      NEW other \in DOMAIN q.db, HigherRate(other, id)
               PROVE  FALSE
    BY DEF Bounded
  <2>1. id \in evictable /\ id \notin P
    BY <1>2, <1>5 DEF KeptByBlock
  <2>2. q.weight <= MaxPoolWeight /\ q.weight \in Nat /\ MaxPoolWeight \in Nat
    BY <1>4, <1>6, <2>1, TxAssumption DEF Weighed
  <2> QED
    BY <2>2
<1> QED
  BY <1>4, <1>7 DEF Fits, prune

(* Nothing changes for a pool that keeps its rows, its weight and its kept *)
(* transactions.                                                           *)
LEMMA FitsSame ==
  ASSUME NEW p, Fits(p), NEW q, q.weight = p.weight, DOMAIN q.db = DOMAIN p.db,
         \A t \in DOMAIN p.db : KeptByBlock(p, t) => KeptByBlock(q, t)
  PROVE  Fits(q)
<1>1. Weighed(q)
  BY DEF Fits, Weighed
<1>2. Bounded(q)
  BY DEF Fits, Bounded
<1> QED
  BY <1>1, <1>2 DEF Fits

(* An inserted transaction is weighed unless the table had it.             *)
LEMMA InsertFits ==
  ASSUME NEW p, PoolType(p), p.sorted = DOMAIN p.db, Weighed(p), NEW id \in Tx,
         NEW meta \in Meta, NEW relay, NEW added \in BOOLEAN,
         added \/ id \in DOMAIN p.db
  PROVE  Fits(Accept(InsertTx(p, id, meta, relay, added)).pool)
<1> DEFINE q == InsertTx(p, id, meta, relay, added)
           D == DOMAIN p.db
<1>1. /\ PoolType(q) /\ DOMAIN q.db = D \cup {id} /\ q.sorted = D \cup {id}
  <2>1. PoolType(q) /\ q.db = PutRow(p.db, id, meta) /\ q.sorted = p.sorted \cup {id}
    BY InsertTxType
  <2> HIDE DEF q
  <2> QED
    BY <2>1 DEF PutRow
<1>2. q.weight = IF added THEN p.weight + tx_weight[id] ELSE p.weight
  BY DEF InsertTx, PoolType
<1>3. /\ D \in FiniteTxs /\ p.weight \in Nat /\ p.weight >= WeightOf(D)
      /\ WeightOf(D) \in Nat /\ tx_weight[id] \in Nat
  BY WeightType, TxAssumption DEF Weighed
<1> HIDE DEF q, D
<1>4. Weighed(q)
  <2>1. CASE id \in D
    <3>1. DOMAIN q.db = D
      BY <1>1, <2>1
    <3> QED
      BY <1>2, <1>3, <3>1 DEF Weighed
  <2>2. CASE id \notin D
    <3>1. /\ DOMAIN q.db \in FiniteTxs
          /\ WeightOf(DOMAIN q.db) = WeightOf(D) + tx_weight[id]
      BY <1>1, <1>3, <2>2, WeightPlus
    <3>2. q.weight = p.weight + tx_weight[id]
      BY <1>2, <2>2 DEF D
    <3> QED
      BY <1>3, <3>1, <3>2 DEF Weighed
  <2> QED
    BY <2>1, <2>2
<1>5. Fits(prune(q))
  BY <1>1, <1>4, PruneFits
<1> QED
  BY <1>5 DEF Accept, q

(* A transaction refused by its images is not weighed.                     *)
LEMMA RejectImagesFits ==
  ASSUME NEW p, PoolType(p), Fits(p), NEW id \in Tx, NEW relay
  PROVE  Fits(RejectImages(p, id, relay).pool)
<1> DEFINE q == RejectImages(p, id, relay).pool
<1>1. q.db = p.db
  BY RejectImagesLemma
<1>2. q.weight = p.weight
  BY DEF RejectImages, Reject, PoolType
<1> HIDE DEF q
<1>3. Fits(q)
  BY <1>1, <1>2, FitsSame DEF KeptByBlock
<1> QED
  BY <1>3 DEF q

(* A transaction kept by block whose inputs fail.                          *)
LEMMA AddInvalidFits ==
  ASSUME NEW p, PoolType(p), p.sorted = DOMAIN p.db, Fits(p), NEW id \in Tx
  PROVE  Fits(AddInvalidInputs(p, id).pool)
<1> DEFINE seen == have_tx_keyimges_as_spent(p, id)
           meta == FreshMeta(relay_block, seen)
<1>1. meta \in Meta
  <2>1. seen \in BOOLEAN /\ relay_block \in RelayMethod
    BY DEF have_tx_keyimges_as_spent, relay_block, RelayMethod
  <2> HIDE DEF seen
  <2> QED
    BY <2>1, FreshMetaType
<1>2. AddInvalidInputs(p, id) =
        IF InsertsImages(p, id, relay_block)
        THEN Accept(InsertTx(p, id, meta, relay_block, TRUE))
        ELSE RejectImages(p, id, relay_block)
  BY DEF AddInvalidInputs
<1> HIDE DEF meta
<1>3. Fits(Accept(InsertTx(p, id, meta, relay_block, TRUE)).pool)
  BY <1>1, InsertFits DEF Fits
<1>4. Fits(RejectImages(p, id, relay_block).pool)
  BY RejectImagesFits
<1> QED
  BY Zenon, <1>2, <1>3, <1>4

(* The same for inputs that pass: a row that is replaced is not weighed    *)
(* again.                                                                  *)
LEMMA AddValidFits ==
  ASSUME NEW p, PoolType(p), p.sorted = DOMAIN p.db, Fits(p), NEW id \in Tx,
         NEW relay \in RelayMethod
  PROVE  Fits(AddValidInputs(p, id, relay).pool)
<1> DEFINE existing == id \in DOMAIN p.db
           old == IF existing THEN p.db[id].method ELSE relay_none
           as  == IF existing /\ relay = relay_stem /\ old = relay_stem
                  THEN relay_fluff ELSE relay
           method == upgrade_relay_method(old, as)
           meta == FreshMeta(method, FALSE)
<1>1. old \in RelayMethod /\ as \in RelayMethod
  BY MethodType DEF RelayMethod, relay_none, relay_fluff
<1>2. meta \in Meta
  <2>1. method \in RelayMethod
    BY <1>1 DEF upgrade_relay_method, RelayMethod
  <2> HIDE DEF method
  <2> QED
    BY <2>1, FreshMetaType
<1>3. \/ AddValidInputs(p, id, relay) = Accept(p)
      \/ AddValidInputs(p, id, relay) = Accept(InsertTx(p, id, meta, as, ~existing))
      \/ AddValidInputs(p, id, relay) = RejectImages(p, id, as)
  BY DEF AddValidInputs
<1> HIDE DEF meta, as
<1>4. Fits(Accept(p).pool)
  BY PruneFits DEF Accept, Fits
<1>5. Fits(Accept(InsertTx(p, id, meta, as, ~existing)).pool)
  BY <1>2, InsertFits DEF Fits
<1>6. Fits(RejectImages(p, id, as).pool)
  BY RejectImagesFits
<1> QED
  BY Zenon, <1>3, <1>4, <1>5, <1>6

(* add_tx as a whole, its early returns included.                          *)
LEMMA AddTxFits ==
  ASSUME NEW p, PoolType(p), p.sorted = DOMAIN p.db, Fits(p), NEW chain,
         NEW id \in Tx, NEW relay \in RelayMethod, NEW version, NEW nic_version
  PROVE  Fits(add_tx(p, chain, id, relay, version, nic_version).pool)
<1> DEFINE kept == relay = relay_block
           q == IF kept THEN p ELSE CacheInputs(p, chain, id)
           r == add_tx(p, chain, id, relay, version, nic_version)
<1>1. /\ PoolType(q) /\ q.db = p.db /\ q.sorted = p.sorted
  BY CacheInputsLemma
<1>2. q.weight = p.weight
  BY DEF CacheInputs, PoolType
<1>3. \/ r = Reject(p)
      \/ r = Reject(mark_double_spend(p, id))
      \/ r = AddValidInputs(q, id, relay)
      \/ r = AddInvalidInputs(q, id)
      \/ r = Reject(q)
  BY DEF add_tx, q
<1> HIDE DEF q, r
<1>4. Fits(q)
  BY <1>1, <1>2, FitsSame DEF KeptByBlock
<1>5. Fits(mark_double_spend(p, id))
  <2> DEFINE m == mark_double_spend(p, id)
  <2>1. /\ DOMAIN m.db = DOMAIN p.db
        /\ \A t \in DOMAIN p.db : m.db[t].method = p.db[t].method
    BY MarkLemma
  <2>2. m.weight = p.weight
    BY DEF mark_double_spend, PoolType
  <2> HIDE DEF m
  <2>3. Fits(m)
    BY <2>1, <2>2, FitsSame DEF KeptByBlock
  <2> QED
    BY <2>3 DEF m
<1>6. Fits(AddValidInputs(q, id, relay).pool) /\ Fits(AddInvalidInputs(q, id).pool)
  BY <1>1, <1>4, AddValidFits, AddInvalidFits
<1>7. \A x : Reject(x).pool = x
  BY DEF Reject
<1>8. Fits(r.pool)
  BY Zenon, <1>3, <1>4, <1>5, <1>6, <1>7
<1> QED
  BY <1>8 DEF r

(* take_tx.                                                                *)
LEMMA TakeFits ==
  ASSUME NEW p, PoolType(p), Fits(p), NEW S
  PROVE  Fits(take_txs(p, S))
<1>1. S \cap DOMAIN p.db \in SUBSET DOMAIN p.db
  OBVIOUS
<1> QED
  BY <1>1, RemoveFits DEF take_txs

(* remove_stuck_transactions.                                              *)
LEMMA StuckFits ==
  ASSUME NEW p, PoolType(p), Fits(p)
  PROVE  Fits(remove_stuck_transactions(p))
<1> DEFINE r == RemoveTxs(p, StuckSet(p))
           q == remove_stuck_transactions(p)
<1>1. StuckSet(p) \in SUBSET DOMAIN p.db
  BY DEF StuckSet
<1>2. Fits(r) /\ PoolType(r)
  BY <1>1, RemoveFits, RemoveTxsType
<1>3. q = [r EXCEPT !.timed_out = @ \cup StuckSet(p)]
  BY DEF remove_stuck_transactions
<1> HIDE DEF r, q
<1>4. q.db = r.db /\ q.weight = r.weight
  BY <1>2, <1>3 DEF PoolType
<1>5. Fits(q)
  BY <1>2, <1>4, FitsSame DEF KeptByBlock
<1> QED
  BY <1>5 DEF q

(* on_blockchain_inc and on_blockchain_dec.                                *)
LEMMA ClearCacheFits ==
  ASSUME NEW p, PoolType(p), Fits(p)
  PROVE  Fits(ClearCache(p))
<1>1. ClearCache(p).db = p.db /\ ClearCache(p).weight = p.weight
  BY DEF ClearCache, PoolType
<1> QED
  BY <1>1, FitsSame DEF KeptByBlock

(* init weighs the table anew, which gives no more than the weight had.    *)
LEMMA PoolFromFits ==
  ASSUME NEW p, Fits(p)
  PROVE  Fits(PoolFrom(p.db))
<1> DEFINE q == PoolFrom(p.db)
<1>1. q.db = p.db /\ q.weight = WeightOf(DOMAIN p.db)
  BY DEF PoolFrom
<1>2. /\ DOMAIN p.db \in FiniteTxs /\ p.weight \in Nat
      /\ p.weight >= WeightOf(DOMAIN p.db) /\ WeightOf(DOMAIN p.db) \in Nat
  BY WeightType DEF Fits, Weighed
<1> HIDE DEF q
<1>3. Weighed(q)
  BY <1>1, <1>2 DEF Weighed
<1>4. q.weight > MaxPoolWeight => p.weight > MaxPoolWeight
  BY <1>1, <1>2, TxAssumption
<1>5. Bounded(q)
  BY <1>1, <1>4 DEF Fits, Bounded, KeptByBlock
<1> QED
  BY <1>3, <1>5 DEF Fits, q

(* A pool without a transaction.                                           *)
LEMMA EmptyFits == Fits(EmptyPool)
<1> DEFINE q == EmptyPool
<1>1. DOMAIN q.db = {} /\ q.weight = WeightOf({})
  BY DEF EmptyPool, PoolFrom
<1>2. {} \in FiniteTxs
  BY FS_EmptySet DEF FiniteTxs
<1>3. WeightOf({}) = 0
  BY <1>2, WeightChosen
<1> HIDE DEF q
<1>4. Fits(q)
  BY <1>1, <1>2, <1>3 DEF Fits, Weighed, Bounded
<1> QED
  BY <1>4 DEF q

(* set_relayed changes the method of a row, never to or from kept by block. *)
LEMMA SetRelayedFits ==
  ASSUME NEW p, PoolType(p), Fits(p), NEW id \in Tx,
         NEW method \in RelayMethod \ {relay_block}
  PROVE  Fits(set_relayed(p, id, method))
<1> DEFINE q == set_relayed(p, id, method)
<1>1. Extends(p, q, id, method) /\ PoolType(q)
  BY SetRelayedLemma
<1>2. q.weight = p.weight /\ DOMAIN q.db = DOMAIN p.db
  BY DEF set_relayed, PoolType, IsTable
<1> HIDE DEF q
<1>3. ASSUME NEW t \in DOMAIN p.db, KeptByBlock(p, t) PROVE KeptByBlock(q, t)
  <2>1. p.db[t].method = 5 /\ p.db[t].method <= q.db[t].method
        /\ q.db[t].method \in 0..5
    BY <1>1, <1>2, <1>3, MethodType
       DEF KeptByBlock, relay_block, Extends, RelayMethod
  <2> QED
    BY <2>1 DEF KeptByBlock, relay_block
<1>4. Fits(q)
  BY <1>2, <1>3, FitsSame
<1> QED
  BY <1>4 DEF q

(* A turn of validate.                                                     *)
LEMMA ValidateFits ==
  ASSUME NEW p, PoolType(p), Consistent(p), Fits(p), NEW chain, NEW id \in Tx,
         NEW meta \in Meta, NEW version
  PROVE  Fits(validate_tx(p, chain, id, meta, version))
<1> DEFINE q == validate_tx(p, chain, id, meta, version)
           a == take_txs(p, {id})
           r == add_tx(a, chain, id, meta.method, version, 0)
<1>1. meta.method \in RelayMethod
  BY DEF Meta
<1>2. PoolType(a) /\ Consistent(a) /\ Fits(a) /\ DOMAIN a.db = DOMAIN p.db \ {id}
  BY TakeLemma, TakeFits
<1>3. /\ PoolType(r.pool) /\ Fits(r.pool)
      /\ Extends(a, r.pool, id, meta.method)
  <2> HIDE DEF a
  <2> QED
    BY <1>1, <1>2, AddTxLemma, AddTxFits DEF Consistent
<1>4. q = IF id \notin DOMAIN p.db THEN p
          ELSE IF r.ok /\ id \in DOMAIN r.pool.db THEN [r.pool EXCEPT !.db[id] = meta]
          ELSE r.pool
  BY DEF validate_tx
<1> HIDE DEF q, a, r
<1>5. CASE q = [r.pool EXCEPT !.db[id] = meta] /\ id \in DOMAIN r.pool.db
  <2>1. q.db = [r.pool.db EXCEPT ![id] = meta] /\ q.weight = r.pool.weight
    BY <1>3, <1>5 DEF PoolType
  <2>2. r.pool.db[id].method = meta.method
    BY <1>2, <1>3, <1>5 DEF Extends
  <2>3. \A t \in DOMAIN r.pool.db : q.db[t].method = r.pool.db[t].method
    BY <2>1, <2>2
  <2>4. Fits(q)
    BY <1>3, <2>1, <2>3, FitsSame DEF KeptByBlock
  <2> QED
    BY <2>4 DEF q
<1>6. CASE q = p \/ q = r.pool
  BY <1>3, <1>6 DEF q
<1> QED
  BY <1>4, <1>5, <1>6
=============================================================================
