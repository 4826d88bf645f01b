------------------------------ MODULE PoolInfo ------------------------------
(***************************************************************************)
(* What a wallet learns of the pool with /getblocks.bin: the lists of      *)
(* added and removed transactions tx_memory_pool keeps by the second       *)
(* (tx_pool.cpp), the answer of the daemon (core_rpc_server.cpp), whole or *)
(* since the last one, and what wallet2 makes of it.                       *)
(***************************************************************************)
EXTENDS Integers

CONSTANTS
  Tx,         \* the transactions
  Ours,       \* those that pay the wallet
  Sensitive,  \* allow_sensitive: the wallet may see stem transactions
  MaxAge      \* how long a removal is remembered, 30 minutes

VARIABLES
  clock,          \* time(NULL), in seconds
  pool,           \* the transactions of the pool
  shown,          \* those of relay_category::broadcasted
  added,          \* m_added_txs_by_id, 0 where there is no entry
  added_start,    \* m_added_txs_start_time
  removed,        \* m_removed_txs_by_time
  removed_start,  \* m_removed_txs_start_time
  asked,          \* daemon_time of the request being answered, or 0
  since,          \* m_pool_info_query_time
  view,           \* the pool as the answers tell it, removals before additions
  payments,       \* the transactions of m_unconfirmed_payments
  process_txs,    \* those the refresh under way is to look at in the end
  scanned         \* m_scanned_pool_txs

lists == <<added, added_start, removed, removed_start>>
wallet == <<since, view, payments, process_txs, scanned>>
vars == <<clock, pool, shown, lists, asked, wallet>>

Removal == [time : Nat, txid : Tx, sensitive : BOOLEAN]

Init ==
  /\ clock = 1
  /\ pool = {} /\ shown = {}
  /\ added = [id \in Tx |-> 0] /\ added_start = 0
  /\ removed = {} /\ removed_start = 0
  /\ asked = 0 /\ since = 0
  /\ view = {} /\ payments = {} /\ process_txs = {} /\ scanned = {}

Tick ==
  /\ clock' = clock + 1
  /\ UNCHANGED <<pool, shown, lists, asked, wallet>>

-----------------------------------------------------------------------------
(* The pool.                                                               *)

(* add_tx and set_relayed, by way of add_tx_to_transient_lists: a new      *)
(* entry, or one that is broadcast now and was not, or comes again.        *)
AddTx(id, broadcast) ==
  /\ broadcast \/ id \notin shown
  /\ pool' = pool \cup {id}
  /\ shown' = IF broadcast THEN shown \cup {id} ELSE shown
  /\ added' = [added EXCEPT ![id] = clock]
  /\ added_start' = IF added_start = 0 THEN clock ELSE added_start
  /\ UNCHANGED <<clock, removed, removed_start, asked, wallet>>

TrackedRemoval(id) ==
  [time |-> clock, txid |-> id, sensitive |-> id \notin shown]

(* track_removed_tx: a list that is too long (its length is left out, so   *)
(* that any may be) loses its oldest entries, some of a second perhaps;    *)
(* another one loses what is too old.                                      *)
CutLongList(all) ==
  \E kept \in SUBSET all :
    /\ kept # {} /\ kept # all
    /\ \A r \in kept, gone \in all \ kept : gone.time <= r.time
    /\ removed' = kept
    /\ \E first \in kept :
         /\ \A r \in kept : first.time <= r.time
         /\ removed_start' = first.time

TooOld(all) == {r \in all : r.time < clock - MaxAge}

CutOldEntries(all) ==
  /\ removed' = all \ TooOld(all)
  /\ removed_start' = IF TooOld(all) # {} THEN clock - MaxAge
                      ELSE IF removed_start = 0 THEN clock
                      ELSE removed_start

(* prune, take_tx, remove_stuck_transactions: by way of                    *)
(* remove_tx_from_transient_lists.                                         *)
RemoveTx(id) ==
  LET all == removed \cup {TrackedRemoval(id)}
  IN  /\ id \in pool
      /\ pool' = pool \ {id}
      /\ shown' = shown \ {id}
      /\ added' = [added EXCEPT ![id] = 0]
      /\ CutLongList(all) \/ CutOldEntries(all)
      /\ UNCHANGED <<clock, added_start, asked, wallet>>

(* validate: the lists are thrown away, every entry is taken out and those *)
(* that pass under the new version are added again.                        *)
Validate(kept) ==
  /\ pool' = kept
  /\ shown' = shown \cap kept
  /\ added' = [id \in Tx |-> IF id \in kept THEN clock ELSE 0]
  /\ added_start' = IF kept = {} THEN 0 ELSE clock
  /\ removed' = {TrackedRemoval(id) : id \in pool}
  /\ removed_start' = IF pool = {} THEN 0 ELSE clock
  /\ UNCHANGED <<clock, asked, wallet>>

(* The daemon is started again, and init adds what the database holds; a   *)
(* request under way is lost.                                              *)
Restart ==
  /\ added' = [id \in Tx |-> IF id \in pool THEN clock ELSE 0]
  /\ added_start' = IF pool = {} THEN 0 ELSE clock
  /\ removed' = {}
  /\ removed_start' = 0
  /\ asked' = 0
  /\ UNCHANGED <<clock, pool, shown, wallet>>

-----------------------------------------------------------------------------
(* The answer.                                                             *)

Seen == IF Sensitive THEN pool ELSE shown

(* get_pool_info: both lists have to go back beyond the start time.        *)
incremental(start_time) ==
  /\ start_time # 0
  /\ added_start # 0 /\ removed_start # 0
  /\ start_time > added_start /\ start_time > removed_start

added_txs(start_time) == {id \in Seen : added[id] >= start_time}

removed_txs(start_time) ==
  {id \in Tx : \E r \in removed : /\ r.txid = id
                                  /\ r.time >= start_time
                                  /\ Sensitive \/ ~ r.sensitive}

(* on_get_blocks notes its time before it asks the pool.                   *)
Ask ==
  /\ asked = 0
  /\ asked' = clock
  /\ UNCHANGED <<clock, pool, shown, lists, wallet>>

(* accept_pool_tx_for_processing, once obsolete payments are gone.         *)
Accepted(ids, known) == ids \ (known \cup scanned)

(* get_pool_info, and process_pool_info_extent on what it gave.            *)
Answer(try_incremental) ==
  LET start == IF try_incremental THEN since ELSE 0
      known == IF incremental(start) THEN payments \ removed_txs(start)
               ELSE payments \cap Seen
      new   == IF incremental(start) THEN added_txs(start) ELSE Seen
  IN  /\ asked # 0
      /\ since' = asked
      /\ asked' = 0
      /\ view' = IF incremental(start)
                   THEN (view \ removed_txs(start)) \cup new ELSE new
      /\ payments' = known
      /\ process_txs' = Accepted(new, known)
      /\ UNCHANGED <<clock, pool, shown, lists, scanned>>

(* The request fails or its answer is lost.                                *)
NoAnswer ==
  /\ asked # 0
  /\ asked' = 0
  /\ UNCHANGED <<clock, pool, shown, lists, wallet>>

(* The end of refresh: process_pool_state.                                 *)
ProcessPoolState ==
  /\ payments' = payments \cup (process_txs \cap Ours)
  /\ scanned' = scanned \cup process_txs
  /\ process_txs' = {}
  /\ UNCHANGED <<clock, pool, shown, lists, asked, since, view>>

(* The refresh is stopped, or fails after the answer: what it was to       *)
(* process is forgotten, m_pool_info_query_time is not.                    *)
RefreshFails ==
  /\ process_txs' = {}
  /\ UNCHANGED <<clock, pool, shown, lists, asked, since, view, payments,
                 scanned>>

(* The payment is found in a block.                                        *)
Mined(id) ==
  /\ payments' = payments \ {id}
  /\ UNCHANGED <<clock, pool, shown, lists, asked, since, view, process_txs,
                 scanned>>

(* The first refresh, and clear.                                           *)
Clear ==
  /\ since' = 0
  /\ payments' = {} /\ scanned' = {} /\ process_txs' = {}
  /\ UNCHANGED <<clock, pool, shown, lists, asked, view>>

Next ==
  \/ Tick
  \/ \E id \in Tx, broadcast \in BOOLEAN : AddTx(id, broadcast)
  \/ \E id \in Tx : RemoveTx(id) \/ Mined(id)
  \/ \E kept \in SUBSET pool : Validate(kept)
  \/ Restart
  \/ Ask \/ NoAnswer
  \/ \E try_incremental \in BOOLEAN : Answer(try_incremental)
  \/ ProcessPoolState \/ RefreshFails \/ Clear

Spec == Init /\ [][Next]_vars

-----------------------------------------------------------------------------
TypeOK ==
  /\ clock \in Nat \ {0}
  /\ pool \subseteq Tx /\ shown \subseteq pool
  /\ added \in [Tx -> Nat] /\ added_start \in Nat
  /\ removed \subseteq Removal /\ removed_start \in Nat
  /\ asked \in Nat /\ since \in Nat
  /\ view \subseteq Tx /\ payments \subseteq Tx
  /\ process_txs \subseteq Tx /\ scanned \subseteq Tx

(* A client that applies every answer of get_pool_info, the removals       *)
(* before the additions as add_tx_to_transient_lists asks for, then has    *)
(* exactly the pool it may see, whatever was added, broadcast, removed,    *)
(* taken out and returned, revalidated or restarted within or between the  *)
(* seconds of its requests.                                                *)
AnswerIsPool ==
  [][(\E try_incremental \in BOOLEAN : Answer(try_incremental))
       => view' = Seen]_vars

(* Once wallet2 has taken an answer, it counts no payment as in the pool,  *)
(* and is about to count none, that is not there.                          *)
PaymentsAreInPool ==
  [][(\E try_incremental \in BOOLEAN : Answer(try_incremental))
       => payments' \cup process_txs' \subseteq Seen]_vars
=============================================================================
