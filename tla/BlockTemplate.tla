---------------------------- MODULE BlockTemplate ----------------------------
(***************************************************************************)
(* The choice of transactions for a block to mine:                         *)
(* tx_memory_pool::fill_block_template (tx_pool.cpp) and get_block_reward  *)
(* (cryptonote_basic_impl.cpp).                                            *)
(***************************************************************************)
EXTENDS TxPool

CONSTANTS
  MedianWeight,  \* median_weight, at least the full reward zone
  Reserved,      \* CRYPTONOTE_COINBASE_BLOB_RESERVED_SIZE
  BaseReward     \* the emission curve's value at the current supply

ASSUME TemplateAssumption ==
  /\ MedianWeight \in Nat \ {0}
  /\ BaseReward \in Nat \ {0}
  /\ Reserved \in 0..MedianWeight

(* get_block_reward: a penalty grows with the weight above the median, and *)
(* a block of more than twice the median has no reward at all.             *)
RewardDefined(weight) == weight <= 2 * MedianWeight

get_block_reward(weight) ==
  IF weight <= MedianWeight THEN BaseReward
  ELSE ((BaseReward * (2 * MedianWeight - weight) * weight)
          \div MedianWeight) \div MedianWeight

MaxTotalWeight(version) ==
  (IF version >= 5 THEN 2 * MedianWeight ELSE (130 * MedianWeight) \div 100)
    - Reserved

(* template_accept_threshold multiplies by the float 1.0f: the amount is   *)
(* rounded to the digits of a float, half way to the even neighbour.       *)
FloatDigits == 24

template_accept_threshold(amount) ==
  LET k == CHOOSE k \in 0..40 :
             /\ amount \div 2^k < 2^FloatDigits
             /\ k = 0 \/ amount \div 2^(k - 1) >= 2^FloatDigits
      q == amount \div 2^k
      r == amount % 2^k
      up == 2 * r > 2^k \/ (2 * r = 2^k /\ q % 2 = 1)
  IN  (q + IF up THEN 1 ELSE 0) * 2^k

(* The top block of a chain.                                               *)
Last(chain) == chain[Len(chain)]

(* is_transaction_ready_to_go: the inputs pass on this chain, and are not  *)
(* known to have failed on this very top block.                            *)
FailedHere(p, chain, id) == p.db[id].last_failed_id = Last(chain)

(* Mistake: not known to have failed is taken for ready.                   *)
is_transaction_not_failed(p, chain, id) == ~ FailedHere(p, chain, id)

is_transaction_ready_to_go(p, chain, id) ==
  /\ ~ FailedHere(p, chain, id)
  /\ id \in CacheInputs(p, chain, id).cache_ok

(* Mistake: the weight of the transaction itself is left out.              *)
WorthIncludingBefore(p, id, version, b) ==
  LET coinbase == get_block_reward(b.weight) + b.fee + fee[id]
  IN  /\ id \in DOMAIN p.db
      /\ \/ Legacy(p.db[id].method)
         \/ MineStem /\ p.db[id].method = relay_stem
      /\ b.weight <= MaxTotalWeight(version)
      /\ version >= 5 =>
           /\ RewardDefined(b.weight)
           /\ coinbase >= template_accept_threshold(b.best)

(* The tests a transaction passes before its inputs are looked at.         *)
WorthIncluding(p, id, version, b) ==
  LET total    == b.weight + tx_weight[id]
      coinbase == get_block_reward(total) + b.fee + fee[id]
  IN  /\ id \in DOMAIN p.db
      /\ \/ Legacy(p.db[id].method)
         \/ MineStem /\ p.db[id].method = relay_stem
      /\ total <= MaxTotalWeight(version)
      /\ version >= 5 =>
           /\ RewardDefined(total)
           /\ coinbase >= template_accept_threshold(b.best)

(* Mistake: the best coinbase leaves out the fees collected before.        *)
ConsiderForgets(p, chain, version, b, id) ==
  IF b.full \/ ~ WorthIncluding(p, id, version, b) THEN b
  ELSE IF version < 5 /\ b.weight > MedianWeight THEN [b EXCEPT !.full = TRUE]
  ELSE IF \/ ~ is_transaction_ready_to_go(p, chain, id)
          \/ Images(id) \cap b.images # {}
       THEN [b EXCEPT !.tested = @ \cup {id}]
  ELSE [hashes |-> Append(b.hashes, id),
        weight |-> b.weight + tx_weight[id],
        fee    |-> b.fee + fee[id],
        best   |-> get_block_reward(b.weight + tx_weight[id]) + fee[id],
        images |-> b.images \cup Images(id),
        tested |-> b.tested \cup {id},
        full   |-> FALSE]

(* One turn of the loop.  b is the block so far; b.tested collects the     *)
(* transactions whose inputs were looked at, b.full is the break taken     *)
(* before version 5 once the median is exceeded.                           *)
Consider(p, chain, version, b, id) ==
  IF b.full \/ ~ WorthIncluding(p, id, version, b) THEN b
  ELSE IF version < 5 /\ b.weight > MedianWeight THEN [b EXCEPT !.full = TRUE]
  ELSE IF \/ ~ is_transaction_ready_to_go(p, chain, id)
          \/ Images(id) \cap b.images # {}
       THEN [b EXCEPT !.tested = @ \cup {id}]
  ELSE [hashes |-> Append(b.hashes, id),
        weight |-> b.weight + tx_weight[id],
        fee    |-> b.fee + fee[id],
        best   |-> IF version >= 5
                   THEN get_block_reward(b.weight + tx_weight[id])
                          + b.fee + fee[id]
                   ELSE 0,
        images |-> b.images \cup Images(id),
        tested |-> b.tested \cup {id},
        full   |-> FALSE]

EmptyTemplate == [hashes |-> <<>>, weight |-> 0, fee |-> 0,
                  best |-> get_block_reward(0), images |-> {}, tested |-> {},
                  full |-> FALSE]

LowestRate(S) == CHOOSE id \in S : \A other \in S : ~ HigherRate(id, other)

(* The loop walks m_txs_by_fee_and_receive_time from the highest fee rate  *)
(* down: the lowest of a set is considered after all the others.           *)
fill_block_template(p, chain, version) ==
  MapThenFoldSet(LAMBDA id, b : Consider(p, chain, version, b, id),
                 EmptyTemplate, LAMBDA id : id, LowestRate, p.sorted)

(* Mistake: the top block is noted before the verdict is known.            *)
AfterTemplateEarly(p, chain, tested) ==
  [p EXCEPT !.db = [t \in DOMAIN p.db |->
     IF t \in tested
     THEN [p.db[t] EXCEPT !.last_failed_id = Last(chain)] ELSE p.db[t]]]

(* What the loop leaves behind: the verdicts it cached, and the top block  *)
(* noted in the metadata of the transactions whose inputs failed.          *)
AfterTemplate(p, chain, tested) ==
  LET asked == {id \in DOMAIN p.db \cap tested : ~ FailedHere(p, chain, id)}
      new   == asked \ (p.cache_ok \cup p.cache_bad)
      bad   == {id \in asked : id \notin CacheInputs(p, chain, id).cache_ok}
  IN  [p EXCEPT
         !.cache_ok  = @ \cup {id \in new : check_tx_inputs(chain, id)},
         !.cache_bad = @ \cup {id \in new : ~ check_tx_inputs(chain, id)},
         !.db = [t \in DOMAIN p.db |->
                   IF t \in bad
                   THEN [p.db[t] EXCEPT !.last_failed_id = Last(chain)]
                   ELSE p.db[t]]]
=============================================================================
