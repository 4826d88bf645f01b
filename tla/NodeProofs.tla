----------------------------- MODULE NodeProofs -----------------------------
(***************************************************************************)
(* The node keeps its types and the parts of its pool agree, for every     *)
(* tree of blocks and every set of transactions.                           *)
(***************************************************************************)
EXTENDS Node, TxPoolProofs, SequenceTheorems, WellFoundedInduction

-----------------------------------------------------------------------------
(* The inductive invariant.  The types alone are not inductive: a command  *)
(* to pop must meet a chain that has a block above genesis, and a failed   *)
(* switch pops down to a split height, which must not be 0.                *)

GoodChain(c) ==
  /\ c \in Seq(Block) \ {<<>>}
  /\ \A i \in 2..Len(c) : c[i] # Genesis

(* The work w is one that can be done on a chain of length n.              *)
GoodScript(w, n) ==
  \A i \in DOMAIN w.script :
    /\ w.script[i].block # Genesis
    /\ w.script[i].op = "pop" => i < n
    /\ w.script[i].op = "connect" => w.split >= 1

GoodWork(w, n) ==
  /\ JobType(w)
  /\ GoodScript(w, n)
  /\ \A i \in DOMAIN w.old : w.old[i] # Genesis

TypeInv ==
  /\ PoolType(pool)
  /\ GoodChain(chain)
  /\ alt \subseteq Block \ {Genesis}
  /\ invalid \subseteq Block \ {Genesis}
  /\ BatchType(batch)
  /\ batch.on => GoodChain(batch.chain) /\ Genesis \notin batch.alt
  /\ batch_ok \in BOOLEAN
  /\ GoodWork(work, Len(chain))
  /\ incoming \in IncomingTx \cup {NoTx}

(* The inductive invariant gives the types.                                *)
LEMMA TypeInvImplies == TypeInv => TypeOK
  BY DEF TypeInv, TypeOK, GoodChain, GoodWork

-----------------------------------------------------------------------------
(* Lemmas on the operators of Node.                                        *)

(* The fork version is never 0, which work.popped uses for none.           *)
LEMMA VersionType ==
  ASSUME NEW h \in Int
  PROVE  VersionAt(h) \in Nat \ {0}
  BY NodeAssumption DEF VersionAt

(* The daemon starts from the empty table.                                 *)
LEMMA EmptyTable == IsTable(<<>>) /\ InitSucceeds(<<>>)
  BY DEF IsTable, InitSucceeds

(* A handler that is done has good work whatever the chain.                *)
LEMMA NoWorkGood == \A n : GoodWork(NoWork, n)
<1>1. NoWork.script = <<>> /\ NoWork.old = <<>> /\ NoWork.revalidating = <<>>
  BY DEF NoWork
<1>2. JobType(NoWork)
  BY EmptyTable DEF NoWork, JobType, IsTable
<1> QED BY <1>1, <1>2 DEF GoodWork, GoodScript

(* Every block below a block is a block.                                   *)
LEMMA HeightPositive ==
  ASSUME NEW b \in Block \ {Genesis}
  PROVE  height[b] \in Nat /\ height[b] >= 1 /\ prev[b] \in Block
<1>1. prev[b] \in Block
  BY NodeAssumption
<1>2. height[b] = height[prev[b]] + 1 /\ height[prev[b]] \in Nat /\ height[b] \in Nat
  BY <1>1, NodeAssumption
<1> QED BY <1>1, <1>2

(* A nonempty set of natural numbers has a least element.                  *)
LEMMA MinLemma ==
  ASSUME NEW S, S \subseteq Nat, S # {}
  PROVE  Min(S) \in S
<1> DEFINE R == {ss \in Nat \X Nat : ss[1] < ss[2]}
<1>0. IsWellFoundedOn(R, Nat)
  BY NatLessThanWellFounded DEF OpToRel
<1>r. \A i, j \in Nat : i < j => <<i, j>> \in R
  OBVIOUS
<1> HIDE DEF R
<1>1. PICK x \in S : \A y \in S : ~ (<<y, x>> \in R)
  BY <1>0, WFMin
<1>2. ASSUME NEW y \in S PROVE x <= y
  <2>1. x \in Nat /\ y \in Nat
    OBVIOUS
  <2>2. ~ (y < x)
    BY <1>1, <1>r, <2>1, Zenon
  <2> QED BY <2>1, <2>2
<1> QED BY <1>2 DEF Min

(* build_alt_chain returns alternative blocks.                             *)
LEMMA AltChainType ==
  ASSUME NEW b \in Block \ {Genesis}, alt \subseteq Block
  PROVE  AltChain(b) \in Seq(alt)
<1> DEFINE c == branch[prev[b]]
           S == {i \in 1..(Len(c) + 1) : \A j \in i..Len(c) : c[j] \in alt}
           k == Min(S)
<1>1. c \in Seq(Block) /\ Len(c) \in Nat
  BY HeightPositive, NodeAssumption
<1>2. Len(c) + 1 \in S
  BY <1>1
<1>3. k \in S
  <2>1. S \subseteq Nat /\ S # {}
    BY <1>1, <1>2
  <2> HIDE DEF S
  <2> QED BY <2>1, MinLemma
<1> HIDE DEF k
<1>4. k \in Int /\ \A i \in k..Len(c) : c[i] \in alt
  BY <1>1, <1>3
<1>5. SubSeq(c, k, Len(c)) \in Seq(alt)
  BY <1>1, <1>4, SubSeqProperties
<1> QED BY <1>5 DEF AltChain, k

(* A sequence is one of what its elements are in.                          *)
LEMMA SeqOfElements ==
  ASSUME NEW S, NEW T, NEW s \in Seq(S), \A i \in 1..Len(s) : s[i] \in T
  PROVE  s \in Seq(T)
<1>1. SubSeq(s, 1, Len(s)) = s
  BY SubSeqFull
<1>2. SubSeq(s, 1, Len(s)) \in Seq(T)
  BY SubSeqProperties
<1> QED BY <1>1, <1>2

(* Commands to pop, and after them others.                                 *)
AboveGenesis == {cmd \in Cmd : cmd.block # Genesis}
NoPops == {cmd \in AboveGenesis : cmd.op # "pop"}

(* Commands for blocks above genesis.                                      *)
LEMMA CommandsAbove ==
  ASSUME NEW op \in {"supplement", "store", "pop", "connect", "reconnect"},
         NEW blocks \in Seq(Block \ {Genesis})
  PROVE  /\ Commands(op, blocks) \in Seq(AboveGenesis)
         /\ op # "pop" => Commands(op, blocks) \in Seq(NoPops)
         /\ Len(Commands(op, blocks)) = Len(blocks)
<1> DEFINE s == Commands(op, blocks)
<1>1. Len(blocks) \in Nat /\ DOMAIN blocks = 1..Len(blocks)
      /\ \A i \in 1..Len(blocks) : blocks[i] \in Block \ {Genesis}
  BY ElementOfSeq
<1>2. s = [i \in 1..Len(blocks) |-> [op |-> op, block |-> blocks[i]]]
  BY <1>1 DEF Commands
<1>3. \A i \in 1..Len(blocks) : s[i] \in Cmd /\ s[i].op = op /\ s[i].block = blocks[i]
  BY <1>1, <1>2 DEF Cmd
<1>4. s \in Seq(Cmd) /\ Len(s) = Len(blocks)
  BY <1>1, <1>2, <1>3
<1>5. \A i \in 1..Len(s) : s[i] \in AboveGenesis
  BY <1>1, <1>3, <1>4 DEF AboveGenesis
<1>6. ASSUME op # "pop" PROVE \A i \in 1..Len(s) : s[i] \in NoPops
  BY <1>3, <1>4, <1>5, <1>6 DEF NoPops
<1> HIDE DEF s
<1>7. s \in Seq(AboveGenesis)
  BY <1>4, <1>5, SeqOfElements
<1>8. ASSUME op # "pop" PROVE s \in Seq(NoPops)
  BY <1>4, <1>6, <1>8, SeqOfElements
<1> QED BY <1>4, <1>7, <1>8 DEF s

(* A script that pops fewer blocks than the chain has, and then does other *)
(* things, never pops genesis.                                             *)
LEMMA PopsThenOthers ==
  ASSUME NEW P \in Seq(AboveGenesis), NEW Q \in Seq(NoPops), NEW n \in Int,
         Len(P) < n, NEW s, s = P \o Q
  PROVE  /\ s \in Seq(Cmd)
         /\ \A i \in DOMAIN s : s[i].block # Genesis /\ (s[i].op = "pop" => i < n)
<1>1. Q \in Seq(AboveGenesis) /\ AboveGenesis \subseteq Cmd
  BY SeqMonotonic DEF NoPops, AboveGenesis
<1>2. /\ s \in Seq(AboveGenesis)
      /\ Len(s) = Len(P) + Len(Q)
      /\ \A i \in 1..(Len(P) + Len(Q)) :
           s[i] = IF i <= Len(P) THEN P[i] ELSE Q[i - Len(P)]
  BY <1>1, ConcatProperties
<1>3. s \in Seq(Cmd)
  BY <1>1, <1>2, SeqMonotonic
<1>4. ASSUME NEW i \in 1..(Len(P) + Len(Q))
      PROVE  /\ s[i].block # Genesis
             /\ s[i].op = "pop" => i < n
  <2>0. Len(P) \in Nat /\ Len(Q) \in Nat
    OBVIOUS
  <2>1. CASE i <= Len(P)
    <3>1. P[i] \in AboveGenesis
      BY <2>0, <2>1, ElementOfSeq
    <3> QED BY <1>2, <2>0, <2>1, <3>1 DEF AboveGenesis
  <2>2. CASE i > Len(P)
    <3>1. Q[i - Len(P)] \in NoPops
      BY <2>0, <2>2, ElementOfSeq
    <3> QED BY <1>2, <2>0, <2>2, <3>1 DEF NoPops, AboveGenesis
  <2> QED BY <2>0, <2>1, <2>2
<1>5. DOMAIN s = 1..(Len(P) + Len(Q))
  BY <1>2
<1> QED BY <1>3, <1>4, <1>5

(* What of the work the script is not about may change.                    *)
LEMMA SameScript ==
  ASSUME NEW w, NEW v, NEW n, GoodWork(w, n), JobType(v),
         v.script = w.script, v.split = w.split, v.old = w.old
  PROVE  GoodWork(v, n)
  BY DEF GoodWork, GoodScript

(* With its first command done the script fits a chain one block shorter.  *)
LEMMA RestGood ==
  ASSUME NEW w, NEW n \in Int, GoodWork(w, n), w.script # <<>>,
         NEW m \in Int, m >= n - 1
  PROVE  LET v == [w EXCEPT !.script = Tail(@)] IN
         /\ GoodWork(v, m)
         /\ Head(w.script) = w.script[1]
         /\ Head(w.script) \in Cmd
         /\ Head(w.script).block \in Block \ {Genesis}
<1> DEFINE v == [w EXCEPT !.script = Tail(@)]
<1>0. w.script \in Seq(Cmd) /\ JobType(w)
  BY DEF GoodWork, JobType
<1>1. /\ Tail(w.script) \in Seq(Cmd)
      /\ Len(Tail(w.script)) = Len(w.script) - 1
      /\ \A i \in 1..Len(Tail(w.script)) : Tail(w.script)[i] = w.script[i + 1]
      /\ Head(w.script) \in Cmd
      /\ Head(w.script) = w.script[1]
      /\ Len(w.script) \in Nat \ {0}
  BY <1>0, HeadTailProperties, EmptySeq
<1>2. JobType(v) /\ v.script = Tail(w.script) /\ v.split = w.split /\ v.old = w.old
  BY <1>0, <1>1 DEF JobType
<1>3. ASSUME NEW i \in DOMAIN v.script
      PROVE  /\ v.script[i].block # Genesis
             /\ v.script[i].op = "pop" => i < m
             /\ v.script[i].op = "connect" => v.split >= 1
  <2>1. i \in 1..Len(Tail(w.script)) /\ i + 1 \in DOMAIN w.script
    BY <1>0, <1>1, <1>2
  <2>2. v.script[i] = w.script[i + 1]
    BY <1>1, <1>2, <2>1
  <2> QED BY <1>2, <2>1, <2>2 DEF GoodWork, GoodScript
<1>4. GoodWork(v, m)
  BY <1>2, <1>3 DEF GoodWork, GoodScript
<1>5. Head(w.script).block \in Block \ {Genesis}
  <2>1. 1 \in DOMAIN w.script
    BY <1>0, <1>1
  <2> QED BY <1>1, <2>1 DEF GoodWork, GoodScript, Cmd
<1> QED BY <1>1, <1>4, <1>5

(* A sequence of blocks of the chain above its first one.                  *)
LEMMA ChainTail ==
  ASSUME NEW c, GoodChain(c), NEW k \in Int, k >= 2
  PROVE  LET s == SubSeq(c, k, Len(c)) IN
         /\ s \in Seq(Block \ {Genesis})
         /\ Len(s) < Len(c)
<1>1. \A i \in k..Len(c) : c[i] \in Block \ {Genesis}
  BY DEF GoodChain
<1>2. Len(c) \in Nat \ {0}
  BY EmptySeq DEF GoodChain
<1> QED BY <1>1, <1>2, SubSeqProperties

(* Appending a block other than genesis keeps the chain rooted.            *)
LEMMA GoodAppend ==
  ASSUME NEW c, GoodChain(c), NEW b \in Block \ {Genesis}
  PROVE  GoodChain(Append(c, b)) /\ Len(Append(c, b)) = Len(c) + 1
  BY AppendProperties DEF GoodChain

(* Popping from a chain of two blocks or more keeps it rooted.             *)
LEMMA GoodFront ==
  ASSUME NEW c, GoodChain(c), Len(c) > 1
  PROVE  GoodChain(Front(c)) /\ Len(Front(c)) = Len(c) - 1
<1>1. c \in Seq(Block) /\ Len(c) \in Nat
  BY DEF GoodChain
<1>2. /\ Front(c) \in Seq(Block)
      /\ Len(Front(c)) = Len(c) - 1
      /\ \A i \in 1..Len(c) - 1 : Front(c)[i] = c[i]
  BY <1>1, SubSeqProperties DEF Front
<1> QED BY <1>1, <1>2, EmptySeq DEF GoodChain

-----------------------------------------------------------------------------
(* Type correctness, action by action.                                     *)

(* The chain has a top.                                                    *)
LEMMA TopType ==
  ASSUME NEW c, GoodChain(c)
  PROVE  Last(c) \in Block
  BY EmptySeq, ElementOfSeq DEF GoodChain, Last

(* create_block_template changes metadata and the input cache only.        *)
LEMMA TemplateLemma ==
  ASSUME NEW p, PoolType(p), NEW c, Last(c) \in Block, NEW tested
  PROVE  LET q == AfterTemplate(p, c, tested) IN
         /\ PoolType(q)
         /\ Consistent(p) => Consistent(q)
         /\ DOMAIN q.db = DOMAIN p.db
         /\ \A t \in DOMAIN p.db : q.db[t].method = p.db[t].method
         /\ q.timed_out = p.timed_out
<1> DEFINE asked == {id \in DOMAIN p.db \cap tested : ~ FailedHere(p, c, id)}
           fresh == asked \ (p.cache_ok \cup p.cache_bad)
           bad == {id \in asked : id \notin CacheInputs(p, c, id).cache_ok}
           db == [t \in DOMAIN p.db |->
                    IF t \in bad THEN [p.db[t] EXCEPT !.last_failed_id = Last(c)]
                                 ELSE p.db[t]]
           good == {id \in fresh : check_tx_inputs(c, id)}
           wrong == {id \in fresh : ~ check_tx_inputs(c, id)}
           q == AfterTemplate(p, c, tested)
<1>1. q = [p EXCEPT !.cache_ok = @ \cup good, !.cache_bad = @ \cup wrong, !.db = db]
  BY DEF AfterTemplate
<1>2. good \subseteq Tx /\ wrong \subseteq Tx
  BY MethodType
<1> HIDE DEF bad, good, wrong
<1>3. \A t \in DOMAIN p.db : db[t] \in Meta /\ db[t].method = p.db[t].method
  BY MethodType DEF Meta
<1>4. IsTable(db) /\ DOMAIN db = DOMAIN p.db
  BY <1>3 DEF IsTable, PoolType
<1> HIDE DEF db, q
<1>5. /\ PoolType(q) /\ q.db = db /\ q.images = p.images /\ q.sorted = p.sorted
      /\ q.timed_out = p.timed_out
  BY <1>1, <1>2, <1>4 DEF PoolType
<1>6. Consistent(p) => Consistent(q)
  BY <1>3, <1>4, <1>5, ConsistentSame
<1> QED BY <1>3, <1>4, <1>5, <1>6 DEF q

(* The first state has the types.                                          *)
LEMMA InitType == Init => TypeInv
<1> SUFFICES ASSUME Init PROVE TypeInv
  OBVIOUS
<1>1. PoolType(pool)
  BY EmptyTable, PoolFromLemma DEF Init, EmptyPool
<1>2. GoodChain(chain)
  BY NodeAssumption DEF Init, GoodChain
<1>3. BatchType(batch) /\ ~batch.on
  BY EmptyTable DEF Init, NoBatch, BatchType
<1> QED BY <1>1, <1>2, <1>3, NoWorkGood DEF Init, TypeInv

(* A block that enters the chain.                                          *)
LEMMA AcceptType ==
  ASSUME TypeInv, NEW b \in Block \ {Genesis}, NEW rest,
         AcceptBlock(b, rest), GoodWork(rest, Len(chain) + 1),
         UNCHANGED <<alt, batch, incoming>>
  PROVE  TypeInv'
<1>1. PoolType(pool')
  BY TakeLemma, ClearCacheLemma DEF TypeInv, AcceptBlock, on_blockchain_inc
<1>2. GoodChain(chain') /\ Len(chain') = Len(chain) + 1
  BY GoodAppend DEF TypeInv, AcceptBlock
<1>3. GoodWork(work', Len(chain'))
  <2> DEFINE t == ToRevalidate(Version, VersionAt(Len(chain) + 1), pool'.db)
  <2>1. IsTable(t)
    BY <1>1, EmptyTable DEF ToRevalidate, PoolType
  <2> HIDE DEF t
  <2>2. work' = [rest EXCEPT !.revalidating = t]
    BY DEF AcceptBlock, t
  <2>3. JobType(rest)
    BY DEF GoodWork
  <2>4. /\ JobType(work') /\ work'.script = rest.script
        /\ work'.split = rest.split /\ work'.old = rest.old
    BY <2>1, <2>2, <2>3 DEF JobType
  <2> QED BY <1>2, <2>4, SameScript
<1> QED BY <1>1, <1>2, <1>3 DEF TypeInv, AcceptBlock

(* The tx_hashes of a block are transactions.                              *)
LEMMA TxsType ==
  ASSUME NEW b \in Block
  PROVE  txs[b] \in Seq(Tx) /\ Range(txs[b]) \subseteq Tx
  BY TxAssumption DEF Range

(* A block that is refused.                                                *)
LEMMA RefuseType ==
  ASSUME TypeInv, NEW b \in Block \ {Genesis}, NEW supplement, NEW rest,
         RefuseBlock(b, supplement, rest), GoodWork(rest, Len(chain)),
         UNCHANGED <<alt, batch, incoming>>
  PROVE  TypeInv'
<1> DEFINE taken == Taken(b, supplement)
<1>1. taken \subseteq Tx
  BY TxsType DEF Taken, Range
<1> HIDE DEF taken
<1>2. PoolType(pool')
  BY TakeLemma DEF TypeInv, RefuseBlock
<1>3. GoodWork(work', Len(chain'))
  <2>1. work' = [rest EXCEPT !.returning = txs[b], !.found = taken \cap DOMAIN pool.db]
    BY DEF RefuseBlock, taken
  <2>2. JobType(rest) /\ txs[b] \in Seq(Tx) /\ taken \cap DOMAIN pool.db \subseteq Tx
    BY <1>1, TxsType DEF GoodWork
  <2>3. /\ JobType(work') /\ work'.script = rest.script
        /\ work'.split = rest.split /\ work'.old = rest.old
    BY <2>1, <2>2 DEF JobType
  <2> QED BY <2>3, SameScript DEF RefuseBlock
<1>4. invalid' \subseteq Block \ {Genesis} /\ batch_ok' \in BOOLEAN
  BY DEF TypeInv, RefuseBlock
<1> QED BY <1>2, <1>3, <1>4 DEF TypeInv, RefuseBlock

(* return_txs_to_pool, one transaction.                                    *)
LEMMA ReturnTxType == TypeInv /\ ReturnTx => TypeInv'
<1> SUFFICES ASSUME TypeInv, ReturnTx PROVE TypeInv'
  OBVIOUS
<1>1. /\ work.returning \in Seq(Tx) /\ work.returning # <<>> /\ JobType(work)
      /\ Head(work.returning) \in Tx /\ Tail(work.returning) \in Seq(Tx)
  BY HeadTailProperties DEF TypeInv, GoodWork, JobType, ReturnTx
<1>2. PoolType(pool')
  <2>1. relay_block \in RelayMethod
    BY DEF relay_block, RelayMethod
  <2> QED BY <1>1, <2>1, AddTxLemma DEF TypeInv, ReturnTx
<1>3. /\ JobType(work') /\ work'.script = work.script
      /\ work'.split = work.split /\ work'.old = work.old
  BY <1>1 DEF ReturnTx, JobType
<1>4. GoodWork(work', Len(chain))
  BY <1>3, SameScript DEF TypeInv
<1> QED BY <1>2, <1>4 DEF TypeInv, ReturnTx

(* The end of pop_block_from_blockchain.                                   *)
LEMMA BlockPoppedType == TypeInv /\ BlockPopped => TypeInv'
<1> SUFFICES ASSUME TypeInv, BlockPopped PROVE TypeInv'
  OBVIOUS
<1>1. PoolType(pool')
  BY ClearCacheLemma DEF TypeInv, BlockPopped, on_blockchain_dec
<1>2. GoodWork(work', Len(chain))
  <2> DEFINE t == ToRevalidate(work.popped, Version, pool.db)
  <2>1. IsTable(t)
    BY EmptyTable DEF ToRevalidate, TypeInv, PoolType
  <2> HIDE DEF t
  <2>2. work' = [work EXCEPT !.popped = 0, !.revalidating = t]
    BY DEF BlockPopped, t
  <2>3. JobType(work)
    BY DEF TypeInv, GoodWork
  <2>4. /\ JobType(work') /\ work'.script = work.script
        /\ work'.split = work.split /\ work'.old = work.old
    BY <2>1, <2>2, <2>3 DEF JobType
  <2> QED BY <2>4, SameScript DEF TypeInv
<1> QED BY <1>1, <1>2 DEF TypeInv, BlockPopped

(* A turn of validate.                                                     *)
LEMMA RevalidateType == TypeInv /\ Revalidate => TypeInv'
<1> SUFFICES ASSUME TypeInv, Revalidate PROVE TypeInv'
  OBVIOUS
<1> DEFINE t == work.revalidating
<1>1. JobType(work) /\ IsTable(t)
  BY DEF TypeInv, GoodWork, JobType
<1>2. PICK id \in DOMAIN t :
        /\ pool' = validate_tx(pool, chain, id, t[id], Version)
        /\ work' = [work EXCEPT !.revalidating = Restrict(@, DOMAIN @ \ {id})]
  BY DEF Revalidate
<1>3. id \in Tx /\ t[id] \in Meta /\ IsTable(Restrict(t, DOMAIN t \ {id}))
  BY <1>1 DEF IsTable, Restrict
<1>4. PoolType(pool')
  BY <1>2, <1>3, ValidateLemma DEF TypeInv
<1>5. /\ JobType(work') /\ work'.script = work.script
      /\ work'.split = work.split /\ work'.old = work.old
  BY <1>1, <1>2, <1>3 DEF JobType
<1>6. GoodWork(work', Len(chain))
  BY <1>5, SameScript DEF TypeInv
<1> QED BY <1>4, <1>6 DEF TypeInv, Revalidate

(* A transaction of the supplement of an alternative block.                *)
LEMMA AddSupplementType == TypeInv /\ AddSupplement => TypeInv'
<1> SUFFICES ASSUME TypeInv, AddSupplement PROVE TypeInv'
  OBVIOUS
<1> DEFINE v == VersionAt(height[Head(work.script).block])
<1>1. JobType(work) /\ work.supplement \subseteq Tx
  BY DEF TypeInv, GoodWork, JobType
<1>2. PICK id \in work.supplement :
        /\ pool' = IF KnownTx(id) THEN pool
                   ELSE add_tx(pool, chain, id, relay_block, v, v).pool
        /\ \/ work' = [work EXCEPT !.supplement = @ \ {id}]
           \/ work' = NoWork
  BY DEF AddSupplement
<1>3. PoolType(pool')
  <2>1. relay_block \in RelayMethod
    BY DEF relay_block, RelayMethod
  <2> QED BY <1>1, <1>2, <2>1, AddTxLemma DEF TypeInv
<1>4. GoodWork(work', Len(chain))
  <2>1. CASE work' = [work EXCEPT !.supplement = @ \ {id}]
    <3>1. /\ JobType(work') /\ work'.script = work.script
          /\ work'.split = work.split /\ work'.old = work.old
      BY <1>1, <2>1 DEF JobType
    <3> QED BY <3>1, SameScript DEF TypeInv
  <2>2. CASE work' = NoWork
    BY <2>2, NoWorkGood
  <2> QED BY <1>2, <2>1, <2>2
<1> QED BY <1>3, <1>4 DEF TypeInv, AddSupplement

(* The work that is left when a command is done.                           *)
LEMMA RestType ==
  ASSUME TypeInv, work.script # <<>>
  PROVE  /\ GoodWork(Rest, Len(chain) - 1)
         /\ GoodWork(Rest, Len(chain))
         /\ GoodWork(Rest, Len(chain) + 1)
         /\ Head(work.script) = work.script[1]
         /\ Head(work.script) \in Cmd
         /\ Head(work.script).block \in Block \ {Genesis}
<1>1. Len(chain) \in Nat /\ GoodWork(work, Len(chain))
  BY DEF TypeInv, GoodChain
<1>2. \A m \in {Len(chain) - 1, Len(chain), Len(chain) + 1} : m \in Int /\ m >= Len(chain) - 1
  BY <1>1
<1>3. \A m \in {Len(chain) - 1, Len(chain), Len(chain) + 1} : GoodWork(Rest, m)
  BY <1>1, <1>2, RestGood DEF Rest
<1>4. /\ Head(work.script) = work.script[1]
      /\ Head(work.script) \in Cmd
      /\ Head(work.script).block \in Block \ {Genesis}
  BY <1>1, <1>2, RestGood
<1> QED BY <1>3, <1>4

(* The end of the supplement.                                              *)
LEMMA SupplementDoneType == TypeInv /\ SupplementDone => TypeInv'
  BY RestType DEF SupplementDone, Command, TypeInv

(* Switching: every block to pop is above genesis, and the split is.       *)
LEMMA StoreAltType == TypeInv /\ StoreAlt => TypeInv'
<1> SUFFICES ASSUME TypeInv, StoreAlt PROVE TypeInv'
  OBVIOUS
<1> DEFINE b == Head(work.script).block
           c == Append(AltChain(b), b)
           k == height[c[1]]
           old == SubSeq(chain, k + 1, Len(chain))
           P == Commands("pop", old)
           Q == Commands("connect", c) \o Commands("store", old)
           s == P \o Q
           new == [Rest EXCEPT !.script = s, !.old = old, !.split = k,
                               !.remove = Range(c)]
<1>1. /\ GoodWork(Rest, Len(chain)) /\ b \in Block \ {Genesis}
  BY RestType DEF StoreAlt, Command
<1>2. \/ alt' = alt /\ work' = Rest
      \/ alt' = alt \cup {b} /\ (work' = Rest \/ work' = new)
  BY DEF StoreAlt
<1>3. alt' \subseteq Block \ {Genesis}
  BY <1>1, <1>2 DEF TypeInv
<1>4. c \in Seq(Block \ {Genesis}) /\ Len(c) \in Nat \ {0} /\ c[1] \in Block \ {Genesis}
  <2>1. AltChain(b) \in Seq(Block \ {Genesis})
    BY <1>1, AltChainType, SeqMonotonic DEF TypeInv
  <2> HIDE DEF b
  <2> QED BY <1>1, <2>1, AppendProperties, ElementOfSeq
<1>5. k \in Nat /\ k >= 1
  BY <1>4, HeightPositive
<1> HIDE DEF b, c, k
<1>6. old \in Seq(Block \ {Genesis}) /\ Len(old) < Len(chain)
  BY <1>5, ChainTail DEF TypeInv
<1> HIDE DEF old
<1>7. old \in Seq(Block) /\ c \in Seq(Block)
  BY <1>4, <1>6, SeqMonotonic
<1>8. /\ P \in Seq(AboveGenesis) /\ Len(P) < Len(chain) /\ Len(chain) \in Int
      /\ Q \in Seq(NoPops)
  BY <1>4, <1>6, CommandsAbove, ConcatProperties DEF TypeInv, GoodChain
<1>s. s = P \o Q
  OBVIOUS
<1> HIDE DEF P, Q, s
<1>9. /\ s \in Seq(Cmd)
      /\ \A i \in DOMAIN s : s[i].block # Genesis /\ (s[i].op = "pop" => i < Len(chain))
  BY <1>s, <1>8, PopsThenOthers
<1>10. JobType(new) /\ new.script = s /\ new.old = old /\ new.split = k
  <2>1. JobType(Rest) /\ Range(c) \subseteq Block
    BY <1>1, <1>7 DEF GoodWork, Range
  <2> QED BY <1>5, <1>7, <1>9, <2>1 DEF JobType
<1> HIDE DEF new
<1>11. GoodScript(new, Len(chain))
  BY <1>5, <1>9, <1>10 DEF GoodScript
<1>12. GoodWork(new, Len(chain))
  BY <1>6, <1>10, <1>11 DEF GoodWork
<1>13. GoodWork(work', Len(chain))
  BY <1>1, <1>2, <1>12
<1> QED BY <1>3, <1>13 DEF TypeInv, StoreAlt

(* pop_block_from_blockchain: a pop in the script has a block above        *)
(* genesis to take.                                                        *)
LEMMA PopBlockType == TypeInv /\ PopBlock => TypeInv'
<1> SUFFICES ASSUME TypeInv, PopBlock PROVE TypeInv'
  OBVIOUS
<1>1. /\ work.script # <<>> /\ Head(work.script).op = "pop"
      /\ work.script \in Seq(Cmd) /\ chain \in Seq(Block) /\ Len(chain) \in Nat
  BY DEF PopBlock, Command, TypeInv, GoodWork, JobType, GoodChain
<1>2. GoodWork(Rest, Len(chain) - 1) /\ Head(work.script) = work.script[1]
  BY <1>1, RestType
<1>3. Len(chain) > 1
  <2>1. 1 \in DOMAIN work.script
    BY <1>1, EmptySeq
  <2> QED BY <1>1, <1>2, <2>1 DEF TypeInv, GoodWork, GoodScript
<1>4. GoodChain(chain') /\ Len(chain') = Len(chain) - 1
  BY <1>3, GoodFront DEF TypeInv, PopBlock
<1>5. Top \in Block
  BY <1>1, <1>3, ElementOfSeq DEF Top, Last
<1>6. Version \in Nat
  BY <1>1, VersionType DEF Version
<1>7. GoodWork(work', Len(chain'))
  <2>1. work' = [Rest EXCEPT !.returning = txs[Top], !.found = Range(txs[Top]),
                             !.popped = Version]
    BY DEF PopBlock
  <2>2. JobType(Rest) /\ txs[Top] \in Seq(Tx) /\ Range(txs[Top]) \subseteq Tx
    BY <1>2, <1>5, TxsType DEF GoodWork
  <2>3. /\ JobType(work') /\ work'.script = Rest.script
        /\ work'.split = Rest.split /\ work'.old = Rest.old
    BY <1>6, <2>1, <2>2 DEF JobType
  <2> QED BY <1>2, <1>4, <2>3, SameScript
<1> QED BY <1>4, <1>7 DEF TypeInv, PopBlock

(* A failed switch pops what it connected, which is above the split.       *)
LEMMA ConnectType == TypeInv /\ Connect => TypeInv'
<1> SUFFICES ASSUME TypeInv, Connect PROVE TypeInv'
  OBVIOUS
<1> DEFINE b == Head(work.script).block
           connected == SubSeq(chain, work.split + 1, Len(chain))
           P == Commands("pop", connected)
           Q == Commands("reconnect", work.old)
           s == P \o Q
           back == [Rest EXCEPT !.script = s, !.remove = @ \ Range(connected)]
<1>1. /\ work.script # <<>> /\ Head(work.script).op = "connect"
      /\ work.script \in Seq(Cmd) /\ JobType(work)
      /\ UNCHANGED <<alt, batch, incoming>>
  BY DEF Connect, Command, TypeInv, GoodWork, JobType
<1>2. /\ GoodWork(Rest, Len(chain)) /\ GoodWork(Rest, Len(chain) + 1)
      /\ Head(work.script) = work.script[1] /\ b \in Block \ {Genesis}
  BY <1>1, RestType
<1>3. work.split \in Nat /\ work.split >= 1
  <2>1. 1 \in DOMAIN work.script
    BY <1>1, EmptySeq
  <2> QED BY <1>1, <1>2, <2>1 DEF TypeInv, GoodWork, GoodScript, JobType
<1>4. \/ AcceptBlock(b, Rest)
      \/ RefuseBlock(b, {}, back)
  BY DEF Connect, Rollback
<1> HIDE DEF b
<1>5. CASE AcceptBlock(b, Rest)
  BY <1>1, <1>2, <1>5, AcceptType
<1>6. CASE RefuseBlock(b, {}, back)
  <2>1. connected \in Seq(Block \ {Genesis}) /\ Len(connected) < Len(chain)
    BY <1>3, ChainTail DEF TypeInv
  <2>2. work.old \in Seq(Block \ {Genesis})
    <3>1. work.old \in Seq(Block) /\ \A i \in 1..Len(work.old) : work.old[i] # Genesis
      BY DEF TypeInv, GoodWork, JobType
    <3>2. \A i \in 1..Len(work.old) : work.old[i] \in Block \ {Genesis}
      BY <3>1, ElementOfSeq
    <3> QED BY <3>1, <3>2, SeqOfElements
  <2>3. s = P \o Q
    OBVIOUS
  <2> HIDE DEF connected
  <2>4. /\ P \in Seq(AboveGenesis) /\ Len(P) < Len(chain) /\ Len(chain) \in Int
        /\ Q \in Seq(NoPops)
    BY <2>1, <2>2, CommandsAbove DEF TypeInv, GoodChain
  <2> HIDE DEF P, Q, s
  <2>5. /\ s \in Seq(Cmd)
        /\ \A i \in DOMAIN s : s[i].block # Genesis /\ (s[i].op = "pop" => i < Len(chain))
    BY <2>3, <2>4, PopsThenOthers
  <2>6. JobType(Rest) /\ Rest.split = work.split /\ Rest.old = work.old
    BY <1>1, <1>2 DEF GoodWork, Rest, JobType
  <2>7. /\ JobType(back) /\ back.script = s
        /\ back.split = work.split /\ back.old = work.old
    BY <2>5, <2>6 DEF JobType
  <2> HIDE DEF back
  <2>8. GoodWork(back, Len(chain))
    BY <1>3, <2>5, <2>7 DEF GoodWork, GoodScript, TypeInv
  <2> QED BY <1>1, <1>2, <1>6, <2>8, RefuseType
<1> QED BY <1>4, <1>5, <1>6

(* rollback_blockchain_switching, one block.                               *)
LEMMA ReconnectType == TypeInv /\ Reconnect => TypeInv'
<1> SUFFICES ASSUME TypeInv, Reconnect PROVE TypeInv'
  OBVIOUS
<1> DEFINE b == Head(work.script).block
           none == [Rest EXCEPT !.script = <<>>]
<1>1. work.script # <<>> /\ UNCHANGED <<alt, batch, incoming>>
  BY DEF Reconnect, Command
<1>2. /\ GoodWork(Rest, Len(chain)) /\ GoodWork(Rest, Len(chain) + 1)
      /\ b \in Block \ {Genesis}
  BY <1>1, RestType
<1>3. GoodWork(none, Len(chain))
  <2>1. JobType(Rest)
    BY <1>2 DEF GoodWork
  <2>2. JobType(none)
    BY <2>1, EmptySeq, Zenon DEF JobType
  <2>3. none.script = <<>> /\ none.old = Rest.old
    BY <2>1 DEF JobType
  <2> HIDE DEF none
  <2> QED BY <1>2, <2>2, <2>3 DEF GoodWork, GoodScript
<1>4. AcceptBlock(b, Rest) \/ RefuseBlock(b, {}, none)
  BY DEF Reconnect
<1> HIDE DEF b, none
<1> QED BY <1>1, <1>2, <1>3, <1>4, AcceptType, RefuseType

(* The end of switch_to_alternative_blockchain.                            *)
LEMMA SwitchDoneType == TypeInv /\ SwitchDone => TypeInv'
  BY NoWorkGood DEF SwitchDone, TypeInv

(* handle_incoming_tx, the look into the pool.                             *)
LEMMA IncomingType ==
  ASSUME TypeInv, NEW id \in Tx, NEW relay \in IncomingRelay,
         HandleIncomingTx(id, relay)
  PROVE  TypeInv'
<1>1. relay \in RelayMethod
  BY NodeAssumption
<1>2. incoming' \in IncomingTx
  BY <1>1 DEF HandleIncomingTx, IncomingTx
<1> QED BY <1>2 DEF HandleIncomingTx, TypeInv

(* add_new_tx, the look into the chain.                                    *)
LEMMA LookOnChainType == TypeInv /\ LookOnChain => TypeInv'
<1> SUFFICES ASSUME TypeInv, LookOnChain PROVE TypeInv'
  OBVIOUS
<1>1. incoming \in IncomingTx
  BY DEF LookOnChain, TypeInv
<1>2. Version \in Nat
  <2>1. Len(chain) \in Int
    BY DEF TypeInv, GoodChain
  <2> QED BY <2>1, VersionType DEF Version
<1>3. incoming' \in IncomingTx \cup {NoTx}
  BY <1>1, <1>2 DEF LookOnChain, IncomingTx
<1> QED BY <1>3 DEF LookOnChain, TypeInv

(* add_new_tx, the insertion.                                              *)
LEMMA AddNewTxType == TypeInv /\ AddNewTx => TypeInv'
<1> SUFFICES ASSUME TypeInv, AddNewTx PROVE TypeInv'
  OBVIOUS
<1>1. incoming \in IncomingTx
  BY DEF AddNewTx, TypeInv
<1>2. incoming.id \in Tx /\ incoming.relay \in RelayMethod
  BY <1>1 DEF IncomingTx
<1>3. PoolType(pool')
  BY <1>2, AddTxLemma DEF AddNewTx, TypeInv
<1> QED BY <1>3 DEF AddNewTx, TypeInv

(* on_transactions_relayed.                                                *)
LEMMA RelayedType ==
  ASSUME TypeInv, NEW id \in Tx, NEW method \in RelayedAs,
         OnTransactionsRelayed(id, method)
  PROVE  TypeInv'
<1>1. method \in RelayMethod \ {relay_block}
  BY NodeAssumption
<1>2. PoolType(pool')
  BY <1>1, SetRelayedLemma DEF OnTransactionsRelayed, TypeInv
<1> QED BY <1>2 DEF OnTransactionsRelayed, TypeInv

(* prepare_handle_incoming_blocks.                                         *)
LEMMA PrepareType == TypeInv /\ PrepareIncomingBlocks => TypeInv'
<1> SUFFICES ASSUME TypeInv, PrepareIncomingBlocks PROVE TypeInv'
  OBVIOUS
<1>1. /\ BatchType(batch') /\ batch'.chain = chain /\ batch'.alt = alt
  BY DEF PrepareIncomingBlocks, TypeInv, BatchType, PoolType, GoodChain
<1> QED BY <1>1 DEF PrepareIncomingBlocks, TypeInv

(* add_new_block.                                                          *)
LEMMA AddNewBlockType ==
  ASSUME TypeInv, NEW b \in Block \ {Genesis},
         NEW supplement \in SUBSET Range(txs[b]), AddNewBlock(b, supplement)
  PROVE  TypeInv'
<1> DEFINE s == <<[op |-> "supplement", block |-> b], [op |-> "store", block |-> b]>>
           new == [NoWork EXCEPT !.script = s, !.supplement = supplement]
<1>0. UNCHANGED <<alt, batch, incoming>>
  BY DEF AddNewBlock
<1>1. CASE AcceptBlock(b, NoWork) \/ RefuseBlock(b, supplement, NoWork)
  BY <1>0, <1>1, NoWorkGood, AcceptType, RefuseType
<1>2. CASE work' = new /\ UNCHANGED <<pool, chain, invalid, batch_ok>>
  <2>1. /\ s \in Seq(Cmd) /\ supplement \subseteq Tx
        /\ \A i \in DOMAIN s : s[i].block = b /\ s[i].op \in {"supplement", "store"}
    BY TxsType DEF Cmd
  <2> HIDE DEF s
  <2>2. JobType(NoWork) /\ NoWork.old = <<>>
    BY NoWorkGood DEF GoodWork, NoWork
  <2>3. JobType(new) /\ new.script = s /\ new.old = NoWork.old
    BY <2>1, <2>2 DEF JobType
  <2> HIDE DEF new
  <2>4. GoodWork(new, Len(chain))
    BY <2>1, <2>2, <2>3 DEF GoodWork, GoodScript
  <2> QED BY <1>0, <1>2, <2>4 DEF TypeInv
<1> QED BY <1>1, <1>2 DEF AddNewBlock

(* cleanup_handle_incoming_blocks, the abort included.                     *)
LEMMA CleanupType == TypeInv /\ CleanupIncomingBlocks => TypeInv'
<1> SUFFICES ASSUME TypeInv, CleanupIncomingBlocks PROVE TypeInv'
  OBVIOUS
<1>1. BatchType(batch') /\ ~ batch'.on
  BY EmptyTable DEF CleanupIncomingBlocks, NoBatch, BatchType
<1>2. /\ PoolType(pool') /\ GoodChain(chain') /\ alt' \subseteq Block \ {Genesis}
  BY DEF CleanupIncomingBlocks, TypeInv, BatchType, PoolType
<1>3. GoodWork(work', Len(chain'))
  BY NoWorkGood DEF CleanupIncomingBlocks, Idle
<1> QED BY <1>1, <1>2, <1>3 DEF CleanupIncomingBlocks, TypeInv

(* pop_blocks never pops genesis.                                          *)
LEMMA PopBlocksType == TypeInv /\ PopBlocks => TypeInv'
<1> SUFFICES ASSUME TypeInv, PopBlocks PROVE TypeInv'
  OBVIOUS
<1> DEFINE s == <<[op |-> "pop", block |-> Top]>>
           new == [NoWork EXCEPT !.script = s]
<1>1. chain \in Seq(Block) /\ Len(chain) \in Nat /\ Len(chain) > 1
  BY DEF PopBlocks, TypeInv, GoodChain
<1>2. Top \in Block \ {Genesis}
  BY <1>1, ElementOfSeq DEF Top, Last, TypeInv, GoodChain
<1>3. /\ s \in Seq(Cmd)
      /\ \A i \in DOMAIN s : i = 1 /\ s[i].block = Top /\ s[i].op = "pop"
  BY <1>2 DEF Cmd
<1> HIDE DEF s
<1>4. JobType(NoWork) /\ NoWork.old = <<>>
  BY NoWorkGood DEF GoodWork, NoWork
<1>5. JobType(new) /\ new.script = s /\ new.old = NoWork.old
  BY <1>3, <1>4 DEF JobType
<1> HIDE DEF new
<1>6. GoodWork(new, Len(chain))
  BY <1>1, <1>2, <1>3, <1>4, <1>5 DEF GoodWork, GoodScript
<1>7. work' = new
  BY DEF PopBlocks, new, s
<1> QED BY <1>6, <1>7 DEF PopBlocks, TypeInv

(* create_block_template.                                                  *)
LEMMA TemplateType == TypeInv /\ CreateBlockTemplate => TypeInv'
<1> SUFFICES ASSUME TypeInv, CreateBlockTemplate PROVE TypeInv'
  OBVIOUS
<1>1. \A tested : PoolType(AfterTemplate(pool, chain, tested))
  BY TemplateLemma, TopType DEF TypeInv
<1> QED BY <1>1 DEF CreateBlockTemplate, TypeInv

(* The passing of time changes only the age of a row.                      *)
LEMMA AgeType ==
  ASSUME TypeInv, NEW id \in Tx, Age(id)
  PROVE  /\ TypeInv'
         /\ pool'.images = pool.images /\ pool'.sorted = pool.sorted
         /\ pool'.timed_out = pool.timed_out
         /\ DOMAIN pool'.db = DOMAIN pool.db
         /\ \A t \in DOMAIN pool.db : pool'.db[t].method = pool.db[t].method
<1> DEFINE db == [pool.db EXCEPT ![id].age = @ + 1]
<1>1. PoolType(pool) /\ id \in DOMAIN pool.db /\ pool.db[id].age < 2
  BY DEF TypeInv, Age
<1>2. \A t \in DOMAIN pool.db : db[t] \in Meta /\ db[t].method = pool.db[t].method
  BY <1>1, MethodType DEF Meta
<1>3. IsTable(db) /\ DOMAIN db = DOMAIN pool.db
  BY <1>1, <1>2 DEF IsTable, PoolType
<1>4. pool' = [pool EXCEPT !.db = db]
  BY <1>1 DEF Age, PoolType
<1> HIDE DEF db
<1>5. /\ PoolType(pool') /\ pool'.db = db /\ pool'.images = pool.images
      /\ pool'.sorted = pool.sorted /\ pool'.timed_out = pool.timed_out
  BY <1>1, <1>3, <1>4 DEF PoolType
<1>6. TypeInv'
  BY <1>5 DEF Age, TypeInv
<1> QED BY <1>2, <1>3, <1>5, <1>6

(* A restart.                                                              *)
LEMMA RestartType == TypeInv /\ Restart => TypeInv'
<1> SUFFICES ASSUME TypeInv, Restart PROVE TypeInv'
  OBVIOUS
<1>1. PoolType(pool')
  BY PoolFromLemma DEF Restart, TypeInv, PoolType
<1> QED BY <1>1 DEF Restart, TypeInv

(* Every turn of the loops.                                                *)
LEMMA WorkStepType == TypeInv /\ WorkStep => TypeInv'
  BY ReturnTxType, BlockPoppedType, RevalidateType, AddSupplementType,
     SupplementDoneType, StoreAltType, PopBlockType, ConnectType, ReconnectType,
     SwitchDoneType DEF WorkStep

(* Every step.                                                             *)
LEMMA NextType == TypeInv /\ [Next]_vars => TypeInv'
<1> SUFFICES ASSUME TypeInv, [Next]_vars PROVE TypeInv'
  OBVIOUS
<1>1. CASE WorkStep
  BY <1>1, WorkStepType
<1>2. CASE \E id \in Tx, relay \in IncomingRelay : HandleIncomingTx(id, relay)
  BY <1>2, IncomingType
<1>3. CASE LookOnChain
  BY <1>3, LookOnChainType
<1>4. CASE AddNewTx
  BY <1>4, AddNewTxType
<1>5. CASE \E id \in Tx, method \in RelayedAs : OnTransactionsRelayed(id, method)
  BY <1>5, RelayedType
<1>6. CASE PrepareIncomingBlocks
  BY <1>6, PrepareType
<1>7. CASE \E b \in Block \ {Genesis} :
             \E supplement \in SUBSET Range(txs[b]) : AddNewBlock(b, supplement)
  BY <1>7, AddNewBlockType
<1>8. CASE CleanupIncomingBlocks
  BY <1>8, CleanupType
<1>9. CASE PopBlocks
  BY <1>9, PopBlocksType
<1>10. CASE \E id \in Tx : FlushTx(id)
  BY <1>10, TakeLemma DEF FlushTx, TypeInv
<1>11. CASE FlushInvalidBlocks
  BY <1>11 DEF FlushInvalidBlocks, TypeInv
<1>12. CASE CreateBlockTemplate
  BY <1>12, TemplateType
<1>13. CASE \E id \in Tx : Age(id)
  BY <1>13, AgeType
<1>14. CASE RemoveStuckTransactions
  BY <1>14, StuckLemma DEF RemoveStuckTransactions, TypeInv
<1>15. CASE Restart
  BY <1>15, RestartType
<1>16. CASE UNCHANGED vars
  BY <1>16 DEF vars, TypeInv
<1> QED BY <1>1, <1>2, <1>3, <1>4, <1>5, <1>6, <1>7, <1>8, <1>9, <1>10,
           <1>11, <1>12, <1>13, <1>14, <1>15, <1>16 DEF Next

(* The inductive invariant holds in every state.                           *)
LEMMA TypeInvariant == Spec => []TypeInv
<1>1. Init => TypeInv
  BY InitType
<1>2. TypeInv /\ [Next]_vars => TypeInv'
  BY NextType
<1> QED BY <1>1, <1>2, PTL DEF Spec

(* Every variable of the node keeps its type, whatever blocks and          *)
(* transactions arrive and however the handlers interleave: no handler     *)
(* pops the genesis block or stores it as an alternative one.              *)
THEOREM TypeCorrect == Spec => []TypeOK
<1>1. Spec => []TypeInv
  BY TypeInvariant
<1>2. TypeInv => TypeOK
  BY TypeInvImplies
<1> QED BY <1>1, <1>2, PTL
=============================================================================
