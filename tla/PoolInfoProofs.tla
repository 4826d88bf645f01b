--------------------------- MODULE PoolInfoProofs ---------------------------
(***************************************************************************)
(* Proofs about PoolInfo, for any transactions and any number of seconds.  *)
(***************************************************************************)
EXTENDS PoolInfo, TLAPS

(* A removal is remembered for some time or none.                          *)
AgeBound == MaxAge \in Nat

(* No request is from the future, nor is the start of the removals.        *)
Times == since <= clock /\ asked <= clock /\ removed_start <= clock

(* The removals go back to their start time, and an entry of the pool was  *)
(* added no earlier than it was last removed.                              *)
Logged ==
  \A r \in removed :
    /\ r.time <= clock
    /\ removed_start # 0 /\ removed_start <= r.time
    /\ r.txid \in pool => r.time <= added[r.txid]

(* An answer since the last one would tell everything that happened.       *)
Told(id) == \E r \in removed : /\ r.txid = id
                               /\ r.time >= since
                               /\ Sensitive \/ ~ r.sensitive

CatchesUp ==
  incremental(since) =>
    /\ \A id \in Seen : id \in view \/ added[id] >= since
    /\ \A id \in view : id \in Seen \/ Told(id)

PaymentsKnown == payments \cup process_txs \subseteq view

PInv == TypeOK /\ Times /\ Logged /\ CatchesUp /\ PaymentsKnown

-----------------------------------------------------------------------------
(* The wallet starts with nothing and no list is kept yet.                 *)
LEMMA InitPInv == Init => PInv
  BY DEF Init, PInv, TypeOK, Times, Logged, CatchesUp, PaymentsKnown,
         incremental, Removal

(* Time passes: nothing else depends on it.                                *)
LEMMA TickKeeps == ASSUME PInv, Tick PROVE PInv'
  <1>1. TypeOK' /\ Times' /\ Logged' /\ PaymentsKnown'
    BY DEF PInv, Tick, lists, wallet, TypeOK, Times, Logged, PaymentsKnown,
           Removal
  <1>2. CatchesUp'
    BY DEF PInv, Tick, lists, wallet, CatchesUp, incremental, Seen, Told
  <1> QED BY <1>1, <1>2 DEF PInv

(* An addition is told, as it has the time of now.                         *)
LEMMA AddKeeps ==
  ASSUME PInv, NEW id \in Tx, NEW broadcast \in BOOLEAN, AddTx(id, broadcast)
  PROVE  PInv'
  <1> USE DEF PInv, AddTx, wallet
  <1>1. TypeOK'
    BY DEF TypeOK
  <1>2. Times' /\ PaymentsKnown'
    BY DEF Times, PaymentsKnown
  <1>3. Logged'
    BY DEF Logged, TypeOK, Removal
  <1>4. CatchesUp'
    <2> SUFFICES ASSUME incremental(since)'
                 PROVE  CatchesUp!2'
      BY DEF CatchesUp
    <2>1. incremental(since)
      BY DEF incremental, Times, TypeOK
    <2>2. ASSUME NEW x \in Seen', x \notin view
          PROVE  added'[x] >= since
      <3>1. CASE x = id
        BY <3>1 DEF Times, TypeOK
      <3>2. CASE x # id
        <4>1. x \in Seen
          BY <2>2, <3>2 DEF Seen
        <4> QED BY <4>1, <2>1, <2>2, <3>2 DEF CatchesUp, TypeOK, Seen
      <3> QED BY <3>1, <3>2
    <2>3. ASSUME NEW x \in view, x \notin Seen'
          PROVE  Told(x)'
      <3>1. x \notin Seen
        BY <2>3 DEF Seen
      <3> QED BY <3>1, <2>1, <2>3 DEF CatchesUp, Told
    <2> QED BY <2>2, <2>3
  <1> QED BY <1>1, <1>2, <1>3, <1>4

(* track_removed_tx keeps every removal after the start time it leaves,    *)
(* and the start time is never before the one it found.                    *)
LEMMA TrackKeeps ==
  ASSUME AgeBound, PInv, NEW id \in Tx,
         NEW all, all = removed \cup {TrackedRemoval(id)},
         CutLongList(all) \/ CutOldEntries(all)
  PROVE  /\ removed' \subseteq all
         /\ removed_start' \in Nat \ {0} /\ removed_start' <= clock
         /\ \A r \in removed' : removed_start' <= r.time
         /\ \A r \in all : r.time > removed_start' => r \in removed'
         /\ removed_start # 0 => removed_start <= removed_start'
         /\ removed_start = 0 => removed_start' = clock
  <1> DEFINE n == TrackedRemoval(id)
  <1>1. n \in Removal /\ n.time = clock /\ clock \in Nat \ {0}
    BY DEF PInv, TypeOK, TrackedRemoval, Removal
  <1>2. \A r \in all : r.time \in Nat \ {0} /\ r.time <= clock
    BY <1>1 DEF PInv, TypeOK, Logged, Removal
  <1>3. \A r \in all : removed_start <= r.time
    BY <1>1 DEF PInv, Logged, Times
  <1>4. removed_start = 0 => all = {n}
    BY DEF PInv, Logged
  <1>5. removed_start \in Nat
    BY DEF PInv, TypeOK
  <1>6. n \in all
    OBVIOUS
  <1> HIDE DEF n
  <1>7. CASE CutLongList(all)
    <2>1. PICK kept \in SUBSET all :
            /\ kept # {} /\ kept # all
            /\ \A r \in kept, gone \in all \ kept : gone.time <= r.time
            /\ removed' = kept
            /\ \E first \in kept :
                 /\ \A r \in kept : first.time <= r.time
                 /\ removed_start' = first.time
      BY <1>7 DEF CutLongList
    <2>2. PICK first \in kept : /\ \A r \in kept : first.time <= r.time
                               /\ removed_start' = first.time
      BY <2>1
    <2>3. removed_start # 0
      BY <2>1, <1>4
    <2>4. removed_start <= removed_start'
      BY <2>2, <1>2, <1>3
    <2>5. ASSUME NEW r \in all, r.time > removed_start'
          PROVE  r \in removed'
      BY <2>1, <2>2, <2>5, <1>2
    <2> QED BY <2>1, <2>2, <2>3, <2>4, <2>5, <1>2
  <1>8. CASE CutOldEntries(all)
    <2>1. removed' = all \ TooOld(all)
      BY <1>8 DEF CutOldEntries
    <2>2. clock - MaxAge \in Int /\ clock - MaxAge <= clock
      BY <1>1 DEF AgeBound
    <2>3. CASE TooOld(all) # {}
      <3>1. PICK old \in all : old.time < clock - MaxAge
        BY <2>3 DEF TooOld
      <3>2. removed_start' = clock - MaxAge
        BY <1>8, <2>3 DEF CutOldEntries
      <3>3. old # n
        BY <3>1, <2>2, <1>1
      <3>4. removed_start # 0 /\ removed_start <= old.time
        BY <3>1, <3>3, <1>3, <1>4
      <3>5. \A r \in all : r.time >= clock - MaxAge <=> r \in removed'
        BY <2>1, <2>2, <1>2 DEF TooOld
      <3>6. clock - MaxAge > 0 /\ removed_start <= clock - MaxAge
        BY <3>1, <3>4, <1>2, <1>5, <2>2
      <3>7. removed_start' \in Nat \ {0} /\ removed_start' <= clock
        BY <3>2, <3>6, <2>2
      <3>8. \A r \in all : r.time > removed_start' => r \in removed'
        BY <3>2, <3>5, <2>2, <1>2
      <3>9. \A r \in removed' : removed_start' <= r.time
        BY <3>2, <3>5, <2>1
      <3> QED BY <3>2, <3>4, <3>6, <3>7, <3>8, <3>9, <2>1
    <2>4. CASE TooOld(all) = {}
      <3>1. removed' = all
        BY <2>1, <2>4
      <3>2. removed_start' = IF removed_start = 0 THEN clock ELSE removed_start
        BY <1>8, <2>4 DEF CutOldEntries
      <3>3. CASE removed_start = 0
        BY <3>1, <3>2, <3>3, <1>1, <1>4
      <3>4. CASE removed_start # 0
        BY <3>1, <3>2, <3>4, <1>2, <1>3, <1>5, <1>6, <1>1
      <3> QED BY <3>3, <3>4
    <2> QED BY <2>3, <2>4
  <1> QED BY <1>7, <1>8

(* A removal is told: its entry has the time of now and is kept.           *)
LEMMA RemoveKeeps ==
  ASSUME AgeBound, PInv, NEW id \in Tx, RemoveTx(id)
  PROVE  PInv'
  <1> DEFINE n == TrackedRemoval(id)
             all == removed \cup {n}
  <1>1. /\ removed' \subseteq all
        /\ removed_start' \in Nat \ {0} /\ removed_start' <= clock
        /\ \A r \in removed' : removed_start' <= r.time
        /\ \A r \in all : r.time > removed_start' => r \in removed'
        /\ removed_start # 0 => removed_start <= removed_start'
        /\ removed_start = 0 => removed_start' = clock
    BY TrackKeeps DEF RemoveTx
  <1>2. n \in Removal /\ n.txid = id /\ n.time = clock
          /\ n.sensitive = (id \notin shown) /\ clock \in Nat \ {0}
    BY DEF PInv, TypeOK, TrackedRemoval, Removal
  <1> HIDE DEF n
  <1>3. /\ id \in pool /\ pool' = pool \ {id} /\ shown' = shown \ {id}
        /\ added' = [added EXCEPT ![id] = 0]
        /\ UNCHANGED <<clock, added_start, asked, since, view, payments,
                      process_txs, scanned>>
    BY DEF RemoveTx, wallet
  <1>4. TypeOK'
    BY <1>1, <1>2, <1>3 DEF PInv, TypeOK
  <1>5. Times' /\ PaymentsKnown'
    BY <1>1, <1>3 DEF PInv, Times, PaymentsKnown
  <1>6. Logged'
    <2> SUFFICES ASSUME NEW r \in removed'
                 PROVE  /\ r.time <= clock
                        /\ removed_start' # 0 /\ removed_start' <= r.time
                        /\ r.txid \in pool' => r.time <= added'[r.txid]
      BY <1>3 DEF Logged
    <2>1. CASE r = n
      BY <2>1, <1>1, <1>2, <1>3
    <2>2. CASE r \in removed
      <3>1. r.time <= clock /\ (r.txid \in pool => r.time <= added[r.txid])
        BY <2>2 DEF PInv, Logged
      <3>2. r.txid \in pool' => added'[r.txid] = added[r.txid]
        BY <1>3 DEF PInv, TypeOK
      <3> QED BY <3>1, <3>2, <1>1, <1>3
    <2> QED BY <2>1, <2>2, <1>1
  <1>7. CatchesUp'
    <2> SUFFICES ASSUME incremental(since)'
                 PROVE  CatchesUp!2'
      BY DEF CatchesUp
    <2>1. /\ since \in Nat /\ since # 0 /\ added_start # 0
          /\ since > added_start /\ since > removed_start' /\ since <= clock
      BY <1>3 DEF incremental, PInv, TypeOK, Times
    <2>2. incremental(since)
      BY <2>1, <1>1, <1>2 DEF incremental, PInv, TypeOK
    <2>3. \A r \in all : r.time >= since => r \in removed'
      BY <2>1, <1>1, <1>2 DEF PInv, TypeOK, Removal
    <2>4. ASSUME NEW x \in Seen', x \notin view
          PROVE  added'[x] >= since
      <3>1. x # id /\ x \in Seen
        BY <1>3 DEF Seen
      <3>2. added'[x] = added[x]
        BY <3>1, <1>3 DEF Seen, PInv, TypeOK
      <3> QED BY <3>1, <3>2, <2>2, <2>4 DEF PInv, CatchesUp
    <2>5. ASSUME NEW x \in view, x \notin Seen'
          PROVE  Told(x)'
      <3>1. CASE x \in Seen
        <4>1. x = id
          BY <3>1, <2>5, <1>3 DEF Seen
        <4>2. Sensitive \/ ~ n.sensitive
          BY <3>1, <4>1, <1>2 DEF Seen
        <4>3. n \in removed'
          BY <2>1, <2>3, <1>2
        <4> QED BY <4>1, <4>2, <4>3, <1>2, <1>3, <2>1 DEF Told
      <3>2. CASE x \notin Seen
        <4>1. PICK r \in removed : /\ r.txid = x
                                   /\ r.time >= since
                                   /\ Sensitive \/ ~ r.sensitive
          BY <3>2, <2>2 DEF PInv, CatchesUp, Told
        <4>2. r \in removed'
          BY <4>1, <2>3
        <4> QED BY <4>1, <4>2, <1>3 DEF Told
      <3> QED BY <3>1, <3>2
    <2> QED BY <2>4, <2>5, <1>3
  <1> QED BY <1>4, <1>5, <1>6, <1>7 DEF PInv

(* After validate, no request is later than the start of the lists.        *)
LEMMA ValidateKeeps ==
  ASSUME PInv, NEW kept \in SUBSET pool, Validate(kept)
  PROVE  PInv'
  <1>1. /\ pool' = kept /\ shown' = shown \cap kept
        /\ added' = [id \in Tx |-> IF id \in kept THEN clock ELSE 0]
        /\ added_start' = IF kept = {} THEN 0 ELSE clock
        /\ removed' = {TrackedRemoval(id) : id \in pool}
        /\ removed_start' = IF pool = {} THEN 0 ELSE clock
        /\ UNCHANGED <<clock, asked, since, view, payments, process_txs,
                      scanned>>
    BY DEF Validate, wallet
  <1>2. \A r \in removed' :
           /\ r \in Removal /\ r.time = clock /\ r.txid \in pool
           /\ removed_start' = clock
    <2> SUFFICES ASSUME NEW r \in removed'
                 PROVE  /\ r \in Removal /\ r.time = clock /\ r.txid \in pool
                        /\ removed_start' = clock
      OBVIOUS
    <2>1. PICK id \in pool : r = TrackedRemoval(id)
      BY <1>1
    <2>2. id \in Tx /\ clock \in Nat
      BY DEF PInv, TypeOK
    <2>3. r = [time |-> clock, txid |-> id, sensitive |-> id \notin shown]
      BY <2>1 DEF TrackedRemoval
    <2> QED BY <2>2, <2>3, <1>1 DEF Removal
  <1>3. TypeOK'
    BY <1>1, <1>2 DEF PInv, TypeOK
  <1>4. Times' /\ PaymentsKnown'
    BY <1>1 DEF PInv, Times, PaymentsKnown, TypeOK
  <1>5. Logged'
    BY <1>1, <1>2 DEF Logged, PInv, TypeOK
  <1>6. ~ incremental(since)'
    BY <1>1 DEF incremental, PInv, TypeOK, Times
  <1> QED BY <1>3, <1>4, <1>5, <1>6 DEF PInv, CatchesUp

(* After a restart there is no list of removals.                           *)
LEMMA RestartKeeps == ASSUME PInv, Restart PROVE PInv'
  <1>1. ~ incremental(since)'
    BY DEF Restart, incremental
  <1>2. TypeOK' /\ Times' /\ Logged' /\ PaymentsKnown'
    BY DEF PInv, Restart, wallet, TypeOK, Times, Logged, PaymentsKnown, Removal
  <1> QED BY <1>1, <1>2 DEF PInv, CatchesUp

(* What an answer leaves the client with is the pool it may see: a removal *)
(* undone since is among the additions, since the entry came after it.     *)
LEMMA AnswerRight ==
  ASSUME PInv, NEW try_incremental \in BOOLEAN, Answer(try_incremental)
  PROVE  view' = Seen
  <1> DEFINE start == IF try_incremental THEN since ELSE 0
  <1>1. CASE ~ incremental(start)
    BY <1>1 DEF Answer
  <1>2. CASE incremental(start)
    <2>1. start = since /\ incremental(since)
      BY <1>2 DEF incremental
    <2>2. view' = (view \ removed_txs(since)) \cup added_txs(since)
      BY <1>2, <2>1 DEF Answer
    <2>3. ASSUME NEW x \in view', x \notin Seen
          PROVE  FALSE
      <3>1. x \in view /\ x \notin removed_txs(since)
        BY <2>2, <2>3 DEF added_txs
      <3>2. Told(x)
        BY <3>1, <2>1, <2>3 DEF PInv, CatchesUp
      <3>3. x \in Tx
        BY <3>1 DEF PInv, TypeOK
      <3> QED BY <3>1, <3>2, <3>3 DEF Told, removed_txs
    <2>4. ASSUME NEW x \in Seen, x \notin view'
          PROVE  FALSE
      <3>1. ~ (added[x] >= since)
        BY <2>2, <2>4 DEF added_txs
      <3>2. x \in view
        BY <3>1, <2>1 DEF PInv, CatchesUp
      <3>3. PICK r \in removed : r.txid = x /\ r.time >= since
        BY <3>2, <2>2, <2>4 DEF removed_txs
      <3>4. x \in pool /\ x \in Tx
        BY DEF Seen, PInv, TypeOK
      <3>5. r.time <= added[x]
        BY <3>3, <3>4 DEF PInv, Logged
      <3>6. r.time \in Nat /\ added[x] \in Nat /\ since \in Nat
        BY <3>4 DEF PInv, TypeOK, Removal
      <3> QED BY <3>1, <3>3, <3>5, <3>6
    <2> QED BY <2>3, <2>4
  <1> QED BY <1>1, <1>2

(* The payments left, and those accepted, are in that pool.                *)
LEMMA AnswerPayments ==
  ASSUME PInv, NEW try_incremental \in BOOLEAN, Answer(try_incremental)
  PROVE  payments' \cup process_txs' \subseteq Seen
  <1> DEFINE start == IF try_incremental THEN since ELSE 0
  <1>1. view' = Seen
    BY AnswerRight
  <1>2. payments \subseteq view
    BY DEF PInv, PaymentsKnown
  <1>3. CASE incremental(start)
    BY <1>1, <1>2, <1>3 DEF Answer, Accepted
  <1>4. CASE ~ incremental(start)
    BY <1>1, <1>2, <1>4 DEF Answer, Accepted
  <1> QED BY <1>3, <1>4

(* An answer leaves nothing to catch up with, and a request time that is   *)
(* not later than anything that happens from now on.                       *)
LEMMA AnswerKeeps ==
  ASSUME PInv, NEW try_incremental \in BOOLEAN, Answer(try_incremental)
  PROVE  PInv'
  <1>1. view' = Seen
    BY AnswerRight
  <1>2. payments' \cup process_txs' \subseteq Seen
    BY AnswerPayments
  <1>3. /\ asked # 0 /\ since' = asked /\ asked' = 0
        /\ UNCHANGED <<clock, pool, shown, added, added_start, removed,
                      removed_start, scanned>>
    BY DEF Answer, lists
  <1>4. Seen' = Seen /\ Seen \subseteq Tx
    BY <1>3 DEF Seen, PInv, TypeOK
  <1>5. TypeOK'
    BY <1>1, <1>2, <1>3, <1>4 DEF PInv, TypeOK
  <1>6. Times' /\ Logged'
    BY <1>3 DEF PInv, TypeOK, Times, Logged
  <1>7. CatchesUp' /\ PaymentsKnown'
    BY <1>1, <1>2, <1>4 DEF CatchesUp, PaymentsKnown
  <1> QED BY <1>5, <1>6, <1>7 DEF PInv

(* The steps of the wallet on its own.                                     *)
LEMMA WalletKeeps ==
  ASSUME PInv,
         \/ Ask \/ NoAnswer \/ ProcessPoolState \/ RefreshFails
         \/ \E id \in Tx : Mined(id)
  PROVE  PInv'
  <1>1. UNCHANGED <<clock, pool, shown, lists, since, view>>
    BY DEF Ask, NoAnswer, ProcessPoolState, RefreshFails, Mined, wallet
  <1>2. asked' \in {asked, 0, clock}
    BY DEF Ask, NoAnswer, ProcessPoolState, RefreshFails, Mined
  <1>3. /\ payments' \cup process_txs' \subseteq payments \cup process_txs
        /\ scanned' \subseteq scanned \cup process_txs
    BY DEF Ask, NoAnswer, ProcessPoolState, RefreshFails, Mined, wallet
  <1>4. TypeOK' /\ Times' /\ Logged' /\ PaymentsKnown'
    BY <1>1, <1>2, <1>3
    DEF PInv, TypeOK, Times, Logged, PaymentsKnown, lists
  <1>5. CatchesUp'
    BY <1>1 DEF PInv, CatchesUp, incremental, Seen, Told, lists
  <1> QED BY <1>4, <1>5 DEF PInv

(* A wallet that starts over asks for the whole pool.                      *)
LEMMA ClearKeeps == ASSUME PInv, Clear PROVE PInv'
  <1>1. ~ incremental(since)'
    BY DEF Clear, incremental
  <1>2. TypeOK' /\ Times' /\ Logged' /\ PaymentsKnown'
    BY DEF PInv, Clear, lists, TypeOK, Times, Logged, PaymentsKnown
  <1> QED BY <1>1, <1>2 DEF PInv, CatchesUp

-----------------------------------------------------------------------------
(* The invariant is inductive.                                             *)
THEOREM PoolInfoNext ==
  ASSUME AgeBound PROVE PInv /\ [Next]_vars => PInv'
  <1> SUFFICES ASSUME PInv, [Next]_vars PROVE PInv'
    OBVIOUS
  <1>1. CASE \E id \in Tx, broadcast \in BOOLEAN : AddTx(id, broadcast)
    BY <1>1, AddKeeps
  <1>2. CASE \E id \in Tx : RemoveTx(id)
    BY <1>2, RemoveKeeps
  <1>3. CASE \E kept \in SUBSET pool : Validate(kept)
    BY <1>3, ValidateKeeps
  <1>4. CASE \E try_incremental \in BOOLEAN : Answer(try_incremental)
    BY <1>4, AnswerKeeps
  <1>5. CASE \/ Ask \/ NoAnswer \/ ProcessPoolState \/ RefreshFails
             \/ \E id \in Tx : Mined(id)
    BY <1>5, WalletKeeps
  <1>6. CASE Tick
    BY <1>6, TickKeeps
  <1>7. CASE Restart
    BY <1>7, RestartKeeps
  <1>8. CASE Clear
    BY <1>8, ClearKeeps
  <1>9. CASE UNCHANGED vars
    BY <1>9 DEF vars, lists, wallet, PInv, TypeOK, Times, Logged, CatchesUp,
                PaymentsKnown, incremental, Seen, Told
  <1> QED BY <1>1, <1>2, <1>3, <1>4, <1>5, <1>6, <1>7, <1>8, <1>9 DEF Next

(* Every answer of get_pool_info, whole or since the last one, leaves a    *)
(* client that applies removals before additions with exactly the pool it  *)
(* may see, however the requests and the changes of the pool fall within   *)
(* the seconds the lists are kept by.                                      *)
THEOREM AnswersArePool == ASSUME AgeBound PROVE Spec => AnswerIsPool
  <1>1. Spec => []PInv
    BY InitPInv, PoolInfoNext, PTL DEF Spec
  <1>2. PInv => [(\E try_incremental \in BOOLEAN : Answer(try_incremental))
                   => view' = Seen]_vars
    BY AnswerRight
  <1> QED BY <1>1, <1>2, PTL DEF AnswerIsPool

(* Once wallet2 has taken an answer, every payment it counts as in the     *)
(* pool is there.                                                          *)
THEOREM PaymentsInPool == ASSUME AgeBound PROVE Spec => PaymentsAreInPool
  <1>1. Spec => []PInv
    BY InitPInv, PoolInfoNext, PTL DEF Spec
  <1>2. PInv => [(\E try_incremental \in BOOLEAN : Answer(try_incremental))
                   => payments' \cup process_txs' \subseteq Seen]_vars
    BY AnswerPayments
  <1> QED BY <1>1, <1>2, PTL DEF PaymentsAreInPool
=============================================================================
