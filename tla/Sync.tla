-------------------------------- MODULE Sync --------------------------------
(***************************************************************************)
(* Chain synchronisation: the part of t_cryptonote_protocol_handler (src/  *)
(* src/cryptonote_protocol/cryptonote_protocol_handler.inl) that downloads *)
(* the chains of several peers at once through one block queue.            *)
(*                                                                         *)
(* The handlers of one connection run one after another on its strand;     *)
(* those of different connections run concurrently.  A handler is cut into *)
(* steps (pc) where it gives up a lock, or reads again what another thread *)
(* may have changed meanwhile.  A peer is honest about its chain, which    *)
(* does not change; it may be slow, and it may close the connection.       *)
(* Peers and the node keep full blocks: every pruning seed is 0.           *)
(***************************************************************************)
EXTENDS BlockQueue

CONSTANTS
  Conn,          \* connections, each to a fixed peer
  Gone,          \* Conn -> the id of an earlier, closed connection to the peer
  host,          \* ids of connections -> network address
  Hash,          \* blocks, known by their hashes
  Genesis,
  prev_id,       \* Hash -> the hash of the parent
  height_of,     \* Hash -> height
  Worlds,        \* what may surround the node, see world
  BlockSyncSize, \* core::get_block_sync_size
  MaxIds,        \* BLOCKS_IDS_SYNCHRONIZING_DEFAULT_COUNT
  NearBlocks,    \* BLOCK_QUEUE_FORCE_DOWNLOAD_NEAR_BLOCKS
  NSpans,        \* BLOCK_QUEUE_NSPANS_THRESHOLD
  QueueSize,     \* BLOCK_QUEUE_SIZE_THRESHOLD, in blocks
  NoHash,        \* crypto::null_hash
  NoConn

Ids == Conn \cup {Gone[c] : c \in Conn}

ASSUME SyncAssumption ==
  /\ Genesis \in Hash /\ NoHash \notin Hash /\ NoConn \notin Ids
  /\ prev_id \in [Hash \ {Genesis} -> Hash]
  /\ height_of \in [Hash -> Nat] /\ height_of[Genesis] = 0
  /\ \A h \in Hash \ {Genesis} : height_of[h] = height_of[prev_id[h]] + 1
  /\ \A w \in Worlds :
       /\ w.chain \in [Conn -> Seq(Hash)]
       /\ \A c \in Conn : /\ w.chain[c] # <<>> /\ w.chain[c][1] = Genesis
                          /\ \A i \in 2..Len(w.chain[c]) :
                               /\ w.chain[c][i] # Genesis
                               /\ prev_id[w.chain[c][i]] = w.chain[c][i - 1]
                          /\ \A i \in 1..Len(w.chain[c]) : height_of[w.chain[c][i]] = i - 1
       /\ \A S \in SUBSET Conn : S # {} =>   \* some peer of finitely many is the longest
            \E c \in S : \A d \in S : Len(w.chain[d]) <= Len(w.chain[c])
       /\ w.unprepared \subseteq Hash /\ w.invalid \subseteq Hash /\ w.timeouts \in Nat
  /\ {BlockSyncSize, MaxIds, NearBlocks, NSpans, QueueSize} \subseteq Nat

VARIABLES
  q,        \* m_block_queue
  known,    \* the blocks the core has, on its main chain or beside it
  top,      \* the last block of the core's main chain
  target,   \* m_target_blockchain_height
  synced,   \* m_synchronized
  link,     \* Conn -> "closed", "open" or "dropping" (close requested)
  ctx,      \* Conn -> cryptonote_connection_context
  net,      \* Conn -> requests the peer has not answered, oldest first
  pc,       \* Conn -> where the connection's handler is
  act,      \* Conn -> the local variables of that handler
  lock,     \* the connection whose handler holds m_sync_lock
  timeouts, \* how often a peer may still be late or close the connection
  world     \* never changes: the peers' main chains, the blocks that fail to be
            \* prepared or to be verified, the bound on timeouts

vars == <<q, known, top, target, synced, link, ctx, net, pc, act, lock, timeouts, world>>
core == <<known, top>>

Height == height_of[top] + 1   \* get_current_blockchain_height
have_block(h) == h \in known
chain_of(c) == world.chain[c]
remote(c) == Len(chain_of(c))  \* m_remote_blockchain_height
Larger(m, n) == IF m > n THEN m ELSE n

(* A context has m_state, m_needed_objects, m_requested_objects,           *)
(* m_last_response_height, m_expected_heights_start (-1: no expected       *)
(* heights; the list is what the peer's chain has from there on),          *)
(* m_expect_response, m_expect_height (-1: no limit), whether              *)
(* m_last_request_time is set and whether that request has timed out,      *)
(* whether m_num_requested is positive, m_last_known_hash,                 *)
(* m_callback_request_count, m_idle_peer_notification and m_score.         *)
FreshContext ==
  [state |-> "before_handshake", needed |-> <<>>, requested |-> {}, lrh |-> 0, es |-> -1,
   expect |-> "none", eh |-> 0, waiting |-> FALSE, late |-> FALSE, num |-> FALSE,
   lkh |-> NoHash, callbacks |-> 0, idle |-> FALSE, score |-> 0]

NoAct == [from |-> "none", force |-> FALSE, live |-> {}, start |-> 0, blocks |-> <<>>,
          i |-> 1, owner |-> NoConn]

set_state_normal(x) ==
  [x EXCEPT !.state = "normal", !.es = -1, !.needed = <<>>, !.requested = {}]
RequestCallback(x) == [x EXCEPT !.callbacks = @ + 1]
Request(x, expect, eh) ==
  [x EXCEPT !.waiting = TRUE, !.late = FALSE, !.expect = expect, !.eh = eh]

Init ==
  /\ q = EmptyQueue
  /\ known = {Genesis} /\ top = Genesis
  /\ target = 0 /\ synced = FALSE
  /\ link = [c \in Conn |-> "closed"]
  /\ ctx = [c \in Conn |-> FreshContext]
  /\ net = [c \in Conn |-> <<>>]
  /\ pc = [c \in Conn |-> "idle"]
  /\ act = [c \in Conn |-> NoAct]
  /\ lock = NoConn
  /\ world \in Worlds
  /\ timeouts = world.timeouts

Ready(c) == link[c] = "open" /\ pc[c] = "idle"

(* drop_connection_with_score(context, _, all) for every connection of D.  *)
(* A close is only asked for: the handler that runs finishes first.        *)
Dropped(D) == [c \in Conn |-> IF c \in D /\ link[c] = "open" THEN "dropping" ELSE link[c]]
Drop(c, x) ==
  /\ q' = flush_spans(q, c, FALSE)
  /\ link' = Dropped({c})
  /\ ctx' = [ctx EXCEPT ![c] = x]
  /\ pc' = [pc EXCEPT ![c] = "idle"]

-----------------------------------------------------------------------------
(* Requests.  The peer answers a chain request from the first block of the *)
(* list that its main chain has (find_blockchain_supplement): the list has *)
(* the last known hash first, if any, then the node's own chain from the   *)
(* top down (get_short_chain_history).                                     *)

Path[h \in Hash] == IF h = Genesis THEN {h} ELSE {h} \cup Path[prev_id[h]]
SplitHeight(c, first) ==
  IF first \in Range(chain_of(c))
  THEN height_of[first]
  ELSE Max({height_of[b] : b \in Path[top] \cap Range(chain_of(c))})
ChainRequest(c, first) == [type |-> "chain", start |-> SplitHeight(c, first), hashes |-> <<>>]
ObjectsRequest(hashes) == [type |-> "objects", start |-> 0, hashes |-> hashes]

BlockIds(c, start) ==
  SubSeq(chain_of(c), start + 1, Larger(start, IF start + MaxIds < remote(c) THEN start + MaxIds ELSE remote(c)))

-----------------------------------------------------------------------------
(* process_payload_sync_data, from a handshake (initial) or a timed sync.  *)
SyncData(c, x, initial) ==
  LET goal == IF target = 0 THEN Height ELSE target
  IN IF have_block(Last(chain_of(c)))
     THEN /\ ctx' = [ctx EXCEPT ![c] = set_state_normal(x)]
          /\ synced' = (synced \/ (initial /\ remote(c) >= goal /\ goal = Height))
          /\ UNCHANGED target
     ELSE /\ target' = IF remote(c) > goal THEN remote(c) ELSE target
          /\ ctx' = [ctx EXCEPT ![c] =
                       RequestCallback([x EXCEPT !.state = "synchronizing", !.num = FALSE])]
          /\ UNCHANGED synced

(* A new connection has a new id; what the earlier connections to the same *)
(* peer delivered stays under theirs (one id stands for them all).         *)
Former(id, c) == IF id = c THEN Gone[c] ELSE id
Renamed(r, c) ==
  LET Own(s) == [s EXCEPT !.conn = Former(@, c)]
  IN [r EXCEPT !.blocks = [h \in Starts(r) |-> Own(r.blocks[h])]]
Connect(c) ==
  /\ link[c] = "closed"
  /\ q' = Renamed(q, c)
  /\ act' = [d \in Conn |-> [act[d] EXCEPT !.owner = Former(@, c)]]
  /\ link' = [link EXCEPT ![c] = "open"]
  /\ SyncData(c, FreshContext, TRUE)
  /\ UNCHANGED <<core, net, pc, lock, timeouts, world>>

TimedSync(c) ==
  /\ Ready(c)
  /\ ctx[c].state # "synchronizing"
  /\ ctx[c].callbacks = 0
  /\ SyncData(c, ctx[c], FALSE)
  /\ UNCHANGED <<q, core, link, net, pc, act, lock, timeouts, world>>

-----------------------------------------------------------------------------
(* on_callback                                                             *)
(* Mistake: m_callback_request_count is not decremented. *)
StillCounted(x) == [x EXCEPT !.idle = FALSE]
CallbackTaken(x) == [x EXCEPT !.callbacks = @ - 1, !.idle = FALSE]

OnCallback(c) ==
  LET x == CallbackTaken(ctx[c])
      kick == ctx[c].idle /\ x.state = "synchronizing" /\ x.waiting /\ x.late
      y == IF kick
           THEN [x EXCEPT !.score = @ - 1, !.waiting = FALSE, !.late = FALSE,
                          !.expect = "none", !.eh = 0, !.requested = {}, !.state = "standby"]
           ELSE x
  IN /\ Ready(c)
     /\ ctx[c].callbacks > 0
     /\ \/ /\ kick /\ x.score < 0
           /\ Drop(c, [x EXCEPT !.score = @ - 1])
           /\ UNCHANGED <<net, act>>
        \/ /\ ~(kick /\ x.score < 0)
           /\ y.state = "synchronizing" /\ ~y.waiting
           /\ ctx' = [ctx EXCEPT ![c] = Request([y EXCEPT !.needed = <<>>], "chain", Height)]
           /\ net' = [net EXCEPT ![c] = Append(@, ChainRequest(c, top))]
           /\ UNCHANGED <<q, link, pc, act>>
        \/ /\ ~(kick /\ x.score < 0)
           /\ y.state = "standby"
           /\ ctx' = [ctx EXCEPT ![c] = [y EXCEPT !.state = "synchronizing"]]
           /\ pc' = [pc EXCEPT ![c] = "trylock"]
           /\ UNCHANGED <<q, link, net, act>>
        \/ /\ y.state = "normal" \/ (y.state = "synchronizing" /\ y.waiting /\ ~kick)
           /\ ctx' = [ctx EXCEPT ![c] = y]
           /\ UNCHANGED <<q, link, net, pc, act>>
     /\ UNCHANGED <<core, target, synced, lock, timeouts, world>>

(* kick_idle_peers and check_standby_peers, run by the idle thread.        *)
KickIdle(c) ==
  /\ timeouts > 0 /\ timeouts' = timeouts - 1
  /\ link[c] = "open"
  /\ ctx[c].state = "synchronizing" /\ ctx[c].waiting /\ ~ctx[c].idle
  /\ ctx' = [ctx EXCEPT ![c] = RequestCallback([@ EXCEPT !.idle = TRUE, !.late = TRUE])]
  /\ UNCHANGED <<q, core, target, synced, link, net, pc, act, lock, world>>

CheckStandby(c) ==
  /\ link[c] = "open"
  /\ ctx[c].state = "standby" /\ ctx[c].callbacks = 0
  /\ ctx' = [ctx EXCEPT ![c] = RequestCallback(@)]
  /\ UNCHANGED <<q, core, target, synced, link, net, pc, act, lock, timeouts, world>>

(* on_idle marks the node synchronized.                                    *)
(* Mistake: the target is not looked at. *)
OnIdleAtOnce ==
  /\ ~synced
  /\ Height > 1
  /\ synced' = TRUE
  /\ UNCHANGED <<q, core, target, link, ctx, net, pc, act, lock, timeouts, world>>
OnIdle ==
  /\ ~synced
  /\ Height > 1 /\ (target = 0 \/ Height >= target)
  /\ synced' = TRUE
  /\ UNCHANGED <<q, core, target, link, ctx, net, pc, act, lock, timeouts, world>>

-----------------------------------------------------------------------------
(* request_missing_objects begins: the live connections are collected.     *)
Requesting(c, from, force) ==
  /\ pc' = [pc EXCEPT ![c] = "decide"]
  /\ act' = [act EXCEPT ![c] = [NoAct EXCEPT !.from = from, !.force = force,
                                            !.live = {d \in Conn : link[d] # "closed"}]]

(* handle_response_chain_entry, up to request_missing_objects.  The first  *)
(* id must be a block the core has, or one the queue has at that height.   *)
HandleChainEntry(c, start) ==
  LET ids  == BlockIds(c, start)
      x    == [ctx[c] EXCEPT !.expect = "none"]
      y    == [x EXCEPT !.waiting = FALSE, !.late = FALSE, !.lrh = start + Len(ids) - 1]
      found == \/ have_block(ids[1])
               \/ ids[1] \in DOMAIN q.have /\ q.have[ids[1]] = start
  IN \/ /\ ctx[c].expect # "chain"
        /\ Drop(c, ctx[c])
        /\ UNCHANGED act
     \/ /\ ctx[c].expect = "chain"
        /\ x.eh # -1 /\ start + 1 > x.eh
        /\ Drop(c, x)
        /\ UNCHANGED act
     \/ /\ ctx[c].expect = "chain"
        /\ x.eh = -1 \/ start + 1 <= x.eh
        /\ ~found
        /\ Drop(c, y)
        /\ UNCHANGED act
     \/ /\ ctx[c].expect = "chain"
        /\ x.eh = -1 \/ start + 1 <= x.eh
        /\ found
        /\ ctx' = [ctx EXCEPT ![c] = [y EXCEPT !.needed = ids, !.es = start]]
        /\ Requesting(c, "chain", FALSE)
        /\ UNCHANGED <<q, link>>

(* handle_response_get_objects: the blocks must follow each other, be the  *)
(* expected ones, and be exactly the requested ones.                       *)
Expected(c, x, h) ==
  x.es # -1 /\ height_of[h] \in x.es..(x.es + Len(BlockIds(c, x.es)) - 1)
(* Mistake: the blocks received stay in m_requested_objects. *)
ReceivedKeepingRequested(x, bcel) == [x EXCEPT !.lkh = Last(bcel)]
Received(x, bcel) == [x EXCEPT !.requested = {}, !.lkh = Last(bcel)]
HandleObjects(c, hashes) ==
  LET bcel  == Range(hashes) \cap Range(chain_of(c))   \* the peer has no others
      x     == [ctx[c] EXCEPT !.waiting = FALSE, !.late = FALSE]
      y     == [x EXCEPT !.expect = "none"]
      start == height_of[hashes[1]]
      fine  == /\ bcel = Range(hashes) /\ x.requested = bcel
               /\ \A i \in DOMAIN hashes : /\ Expected(c, x, hashes[i])
                                           /\ height_of[hashes[i]] = start + i - 1
               /\ start <= x.eh /\ start > x.es
  IN \/ /\ x.expect # "objects"
        /\ Drop(c, x)
        /\ UNCHANGED target
     \/ /\ x.expect = "objects" /\ bcel = {}
        /\ Drop(c, y)
        /\ UNCHANGED target
     \/ /\ x.expect = "objects" /\ bcel # {} /\ ~fine
        /\ target' = Larger(target, remote(c))
        /\ Drop(c, y)
     \/ /\ x.expect = "objects" /\ bcel # {} /\ fine
        /\ target' = Larger(target, remote(c))
        /\ q' = add_blocks(q, start, hashes, c)
        /\ ctx' = [ctx EXCEPT ![c] = Received(y, hashes)]
        /\ pc' = [pc EXCEPT ![c] = "trylock"]
        /\ UNCHANGED link

Deliver(c) ==
  /\ Ready(c)
  /\ net[c] # <<>>
  /\ net' = [net EXCEPT ![c] = Tail(@)]
  /\ LET m == Head(net[c])
     IN \/ m.type = "chain" /\ HandleChainEntry(c, m.start) /\ UNCHANGED target
        \/ m.type = "objects" /\ HandleObjects(c, m.hashes) /\ UNCHANGED act
  /\ UNCHANGED <<core, synced, lock, timeouts, world>>

-----------------------------------------------------------------------------
(* try_add_next_blocks                                                     *)

ToRequest(c, force) == Requesting(c, "add", force)

TryLock(c) ==
  /\ pc[c] = "trylock"
  /\ \/ /\ lock = NoConn
        /\ lock' = c
        /\ pc' = [pc EXCEPT ![c] = "next"]
        /\ UNCHANGED act
     \/ /\ lock # NoConn
        /\ ToRequest(c, FALSE)
        /\ UNCHANGED lock
  /\ UNCHANGED <<q, core, target, synced, link, ctx, net, timeouts, world>>

(* should_download_next_span: nobody reserved the next block, or the span  *)
(* it is in has been scheduled for long enough (slow).                     *)
should_download_next_span(c, r, slow) ==
  /\ remote(c) > Height
  /\ \/ ~has_next_span(r, Height)
     \/ slow /\ has_next_span(r, Height) /\ ~Filled(r.blocks[FirstStart(r)])

(* drop_connections(origin), then the span's own connection.               *)
SameHost(owner) == {c \in Conn : link[c] # "closed" /\ host[c] = host[owner]}
FlushHost(owner) ==
  erase_block(q, {h \in Starts(q) : q.blocks[h].conn \in SameHost(owner)})

(* The handler returns: m_sync_lock is released, nothing is requested.     *)
GiveUp(c, owner) ==
  /\ link' = Dropped(SameHost(owner))
  /\ lock' = NoConn
  /\ pc' = [pc EXCEPT ![c] = "idle"]
  /\ act' = [act EXCEPT ![c] = NoAct]

(* The loop ends; the handler still holds m_sync_lock.                     *)
Stop(c) ==
  /\ pc' = [pc EXCEPT ![c] = "stop"]
  /\ UNCHANGED <<q, link, ctx, act, lock>>

(* What the loop does with s, the first received span, that starts at h.   *)
LookAt(c, h, s) ==
  LET parent  == prev_id[s.blocks[1]]
      old     == have_block(Last(s.blocks))
      awaited == parent \in q.requested
      ready   == Range(s.blocks) \cap world.unprepared = {}
  IN \/ /\ old
        /\ q' = remove_spans(q, s.conn, h)
        /\ UNCHANGED <<link, ctx, pc, act, lock>>
     \/ /\ ~old /\ ~have_block(parent) /\ awaited
        /\ Stop(c)
     \/ /\ ~old /\ ~have_block(parent) /\ ~awaited /\ h > Height
        /\ ToRequest(c, FALSE)
        /\ lock' = NoConn
        /\ UNCHANGED <<q, link, ctx>>
     \/ /\ ~old /\ ~have_block(parent) /\ ~awaited /\ h <= Height
        /\ q' = remove_spans(q, s.conn, h)
        /\ ctx' = [ctx EXCEPT ![c] = [@ EXCEPT !.needed = <<>>, !.lrh = 0]]
        /\ ToRequest(c, FALSE)
        /\ lock' = NoConn
        /\ UNCHANGED link
     \/ /\ ~old /\ have_block(parent) /\ ready
        /\ act' = [act EXCEPT ![c] = [NoAct EXCEPT !.start = h, !.blocks = s.blocks,
                                                   !.owner = s.conn]]
        /\ pc' = [pc EXCEPT ![c] = "verify"]
        /\ UNCHANGED <<q, link, ctx, lock>>
     \/ /\ ~old /\ have_block(parent) /\ ~ready
        /\ q' = FlushHost(s.conn)
        /\ GiveUp(c, s.conn)
        /\ UNCHANGED ctx

NextSpan(c) ==
  /\ pc[c] = "next"
  /\ \/ get_next_span(q) = {} /\ Stop(c)
     \/ \E h \in get_next_span(q) : LookAt(c, h, q.blocks[h])
  /\ UNCHANGED <<core, target, synced, net, timeouts, world>>

StopAdding(c) ==
  /\ pc[c] = "stop"
  /\ \E slow \in BOOLEAN : ToRequest(c, should_download_next_span(c, q, slow))
  /\ lock' = NoConn
  /\ UNCHANGED <<q, core, target, synced, link, ctx, net, timeouts, world>>

(* handle_incoming_block for the next block of the span.  A block on the   *)
(* main chain is verified; one beside it only when its chain is the longer *)
(* one.                                                                    *)
(* Mistake: a block beside the main chain is refused. *)
AcceptsOnTop(b) == prev_id[b] = top /\ b \notin world.invalid
Accepts(b) ==
  /\ have_block(prev_id[b])
  /\ b \notin world.invalid \/ (prev_id[b] # top /\ height_of[b] <= height_of[top])

(* Mistake: the main chain moves to a block that is not higher. *)
MovesAlways(b) == b
NewTop(b) == IF height_of[b] > height_of[top] THEN b ELSE top

VerifyBlock(c) ==
  LET b == act[c].blocks[act[c].i]
      fine == have_block(b) \/ Accepts(b)
  IN /\ pc[c] = "verify"
     /\ act[c].i \in DOMAIN act[c].blocks
     /\ \/ /\ fine
           /\ known' = known \cup {b}
           /\ top' = NewTop(b)
           /\ act' = [act EXCEPT ![c].i = @ + 1]
           /\ UNCHANGED <<q, link, pc, lock>>
        \/ /\ ~fine
           /\ q' = remove_spans(FlushHost(act[c].owner), act[c].owner, act[c].start)
           /\ GiveUp(c, act[c].owner)
           /\ UNCHANGED core
     /\ UNCHANGED <<target, synced, ctx, net, timeouts, world>>

RemoveSpan(c) ==
  /\ pc[c] = "verify"
  /\ act[c].i \notin DOMAIN act[c].blocks
  /\ q' = remove_spans(q, act[c].owner, act[c].start)
  /\ pc' = [pc EXCEPT ![c] = "next"]
  /\ act' = [act EXCEPT ![c] = NoAct]
  /\ UNCHANGED <<core, target, synced, link, ctx, net, lock, timeouts, world>>

-----------------------------------------------------------------------------
(* request_missing_objects, after the live connections are collected:      *)
(* stale spans are flushed and it is decided whether to go on, then a      *)
(* request is made.                                                        *)

(* The caller goes on after request_missing_objects returned true.         *)
Finish(c, x) ==
  LET chain == act[c].from = "chain"
  IN /\ ctx' = [ctx EXCEPT ![c] = IF chain THEN [x EXCEPT !.num = FALSE] ELSE x]
     /\ target' = IF chain THEN Larger(target, remote(c)) ELSE target
     /\ pc' = [pc EXCEPT ![c] = "idle"]
     /\ act' = [act EXCEPT ![c] = NoAct]
     /\ UNCHANGED link

(* It returned false, leaving the queue r: the caller drops the connection.*)
Fail(c, x, r) ==
  /\ q' = flush_spans(r, c, FALSE)
  /\ link' = Dropped({c})
  /\ ctx' = [ctx EXCEPT ![c] = x]
  /\ pc' = [pc EXCEPT ![c] = "idle"]
  /\ act' = [act EXCEPT ![c] = NoAct]
  /\ UNCHANGED <<target, synced, net>>

(* skip_unneeded_hashes *)
NumUnneeded(r, x, check_queue) ==
  LET unneeded(h) == have_block(h) \/ (check_queue /\ h \in DOMAIN r.have)
  IN Cardinality({i \in DOMAIN x.needed : \A j \in 1..i : unneeded(x.needed[j])})
skip_unneeded_hashes(r, x, check_queue) ==
  LET k == NumUnneeded(r, x, check_queue)
  IN [x EXCEPT !.needed = SubSeq(@, k + 1, Len(@)),
               !.lkh = IF k > 0 /\ k = Len(x.needed) THEN Last(x.needed) ELSE @]
NothingLeft(x, y) == x.needed # <<>> /\ y.needed = <<>> /\ ~y.num

(* All the peer's hashes are skipped and none was requested from it.       *)
Nothing(c, y, r) ==
  \/ /\ remote(c) > get_next_needed_height(r, Height)
     /\ Fail(c, y, r)
  \/ /\ remote(c) <= get_next_needed_height(r, Height)
     /\ Finish(c, set_state_normal(y))
     /\ synced' = (synced \/ Height >= target)
     /\ q' = r
     /\ UNCHANGED net

(* Does the queue have room, or does the node need the blocks next?        *)
Decide(c) ==
  LET r    == flush_stale_spans(q, act[c].live)
      x    == ctx[c]
      y    == skip_unneeded_hashes(r, x, TRUE)
      next_needed == get_next_needed_height(r, Height)
      next_block == IF y.needed = <<>> THEN next_needed ELSE y.lrh - Len(y.needed) + 1
      near == next_block < Height + NearBlocks \/ next_needed < Height + NearBlocks
      room == get_num_filled_spans(r) < NSpans \/ get_data_size(r) < QueueSize
      ready == has_next_span(r, Height) /\ Filled(r.blocks[FirstStart(r)])
      Resume(force) ==
        /\ q' = r
        /\ ctx' = [ctx EXCEPT ![c] = [y EXCEPT !.state = "synchronizing"]]
        /\ act' = [act EXCEPT ![c].force = force]
        /\ pc' = [pc EXCEPT ![c] = "select"]
        /\ UNCHANGED <<target, synced, link, net, timeouts>>
      Pause(z) ==
        /\ q' = r
        /\ Finish(c, [z EXCEPT !.state = "standby"])
        /\ UNCHANGED <<synced, net, timeouts>>
  IN /\ pc[c] = "decide"
     /\ \/ /\ act[c].force
           /\ q' = r
           /\ pc' = [pc EXCEPT ![c] = "select"]
           /\ UNCHANGED <<target, synced, link, ctx, net, act, timeouts>>
        \/ /\ ~act[c].force /\ NothingLeft(x, y)
           /\ Nothing(c, y, r)
           /\ UNCHANGED timeouts
        \/ /\ ~act[c].force /\ ~NothingLeft(x, y)
           /\ \/ \E slow \in BOOLEAN :
                   /\ near /\ should_download_next_span(c, r, slow)
                   /\ Resume(TRUE)
              \/ /\ near \/ room
                 /\ ~(near /\ should_download_next_span(c, r, FALSE))
                 /\ Resume(FALSE)
              \/ /\ ~near /\ ~room
                 /\ lock = NoConn /\ ready
                 /\ Pause(RequestCallback(y))
              \/ /\ ~near /\ ~room
                 /\ ~(lock = NoConn /\ ready)
                 /\ Pause(y)
              \/ /\ ~near /\ ~room /\ lock = NoConn /\ ~ready
                 /\ timeouts > 0 /\ timeouts' = timeouts - 1
                 /\ Fail(c, y, r)
     /\ UNCHANGED <<core, lock, world>>

AskObjects(c, x, start, hashes) ==
  /\ Finish(c, [Request(x, "objects", start) EXCEPT
                  !.requested = @ \cup Range(hashes), !.num = TRUE])
  /\ net' = [net EXCEPT ![c] = Append(@, ObjectsRequest(hashes))]
  /\ UNCHANGED synced

(* The hashes are known: take over the next span, reserve one, or take     *)
(* over the next span after all.                                           *)
SelectSpan(c) ==
  LET x     == ctx[c]
      y     == skip_unneeded_hashes(q, x, FALSE)
      h     == FirstStart(q)
      first == y.lrh - Len(y.needed) + 1
      rs    == reserve_span(q, y.lrh, BlockSyncSize, c, y.needed)
      k     == rs.start - first
      force == act[c].force
      takeover == force /\ next_span_scheduled(q)
      nothing  == NothingLeft(x, y)
  IN /\ x.needed # <<>> \/ force
     /\ \/ /\ takeover
           /\ AskObjects(c, x, h, q.blocks[h].hashes)
           /\ UNCHANGED q
        \/ /\ ~takeover /\ nothing
           /\ Nothing(c, y, q)
        \/ /\ ~takeover /\ ~nothing /\ rs.n > 0
           /\ q' = rs.q
           /\ AskObjects(c, [y EXCEPT !.needed = SubSeq(@, k + rs.n + 1, Len(@))],
                         rs.start, SubSeq(y.needed, k + 1, k + rs.n))
        \/ /\ ~takeover /\ ~nothing /\ rs.n = 0
           /\ ~force /\ next_span_scheduled(q)
           /\ AskObjects(c, [y EXCEPT !.needed = SelectSeq(@, LAMBDA b : b \notin Range(q.blocks[h].hashes))],
                         h, q.blocks[h].hashes)
           /\ UNCHANGED q
        \/ /\ ~takeover /\ ~nothing /\ rs.n = 0
           /\ force \/ ~next_span_scheduled(q)
           /\ \/ /\ Larger(Height, get_next_needed_height(q, Height)) >= target
                 /\ Finish(c, set_state_normal(y))
                 /\ UNCHANGED <<q, synced, net>>
              \/ /\ Larger(Height, get_next_needed_height(q, Height)) < target
                 /\ Fail(c, y, q)

(* No hashes are left: add blocks, ask for more hashes, or be done.        *)
SelectChain(c) ==
  LET x     == ctx[c]
      adds  == Height < target /\ lock = NoConn /\ FilledStarts(q) # {}
      known_first == x.lkh # NoHash /\ x.lkh # top
      ended == x.lrh = remote(c) - 1 /\ x.requested = {}
  IN /\ x.needed = <<>> /\ ~act[c].force
     /\ \/ /\ adds
           /\ Finish(c, RequestCallback([x EXCEPT !.state = "standby"]))
           /\ UNCHANGED <<q, synced, net>>
        \/ /\ ~adds /\ x.lrh < remote(c) - 1
           /\ Finish(c, Request(x, "chain", IF known_first THEN -1 ELSE Height))
           /\ net' = [net EXCEPT ![c] =
                        Append(@, ChainRequest(c, IF known_first THEN x.lkh ELSE top))]
           /\ UNCHANGED <<q, synced>>
        \/ /\ ~adds /\ x.lrh >= remote(c) - 1 /\ ended
           /\ Finish(c, set_state_normal(x))
           /\ synced' = (synced \/ (remote(c) >= target /\ Height >= target))
           /\ UNCHANGED <<q, net>>
        \/ /\ ~adds /\ x.lrh >= remote(c) - 1 /\ ~ended
           /\ Fail(c, x, q)

Select(c) ==
  /\ pc[c] = "select"
  /\ SelectSpan(c) \/ SelectChain(c)
  /\ UNCHANGED <<core, lock, timeouts, world>>

-----------------------------------------------------------------------------
(* The peer closes the connection, or the node's close takes effect.       *)
RemoteClose(c) ==
  /\ link[c] = "open"
  /\ timeouts > 0 /\ timeouts' = timeouts - 1
  /\ link' = [link EXCEPT ![c] = "dropping"]
  /\ UNCHANGED <<q, core, target, synced, ctx, net, pc, act, lock, world>>

(* Mistake: the peers that remain are not looked at. *)
TargetForgotten(c) == 0
TargetWithout(c) ==
  LET others == {remote(d) : d \in {e \in Conn \ {c} : link[e] # "closed"}}
      goal   == Max(others \cup {0})
  IN IF goal < target THEN goal ELSE target

on_connection_close(c) ==
  /\ link[c] = "dropping" /\ pc[c] = "idle"
  /\ target' = TargetWithout(c)
  /\ q' = flush_spans(q, c, FALSE)
  /\ link' = [link EXCEPT ![c] = "closed"]
  /\ ctx' = [ctx EXCEPT ![c] = FreshContext]
  /\ net' = [net EXCEPT ![c] = <<>>]
  /\ UNCHANGED <<core, synced, pc, act, lock, timeouts, world>>

(* What connection c does by itself; the rest is lateness and closing.     *)
Strand(c) ==
  \/ Connect(c) \/ TimedSync(c) \/ CheckStandby(c) \/ OnCallback(c) \/ Deliver(c)
  \/ TryLock(c) \/ NextSpan(c) \/ VerifyBlock(c) \/ RemoveSpan(c) \/ StopAdding(c)
  \/ Decide(c) \/ Select(c) \/ on_connection_close(c)

Next == \/ OnIdle
        \/ \E c \in Conn : Strand(c) \/ KickIdle(c) \/ RemoteClose(c)

Spec == Init /\ [][Next]_vars

(* Handlers run to their end, timers fire and closed peers are connected   *)
(* to again: weak fairness of Strand(c), written out.  A strand takes its  *)
(* messages in turn, so that an answer is handled in the end although      *)
(* other handlers run in between, unless the connection closes.  Nobody    *)
(* has to be late or to close.                                             *)
CanRun(c) ==   \* ENABLED <<Strand(c)>>_vars, written out
  \/ link[c] # "open" \/ pc[c] # "idle"
  \/ ctx[c].callbacks > 0 \/ net[c] # <<>> \/ ctx[c].state = "standby"
  \/ ctx[c].state = "normal" /\ ~have_block(Last(chain_of(c)))
Fairness(c) ==
  /\ []<>~CanRun(c) \/ []<><<Strand(c)>>_vars
  /\ SF_vars(Deliver(c))
FairSpec == Spec /\ \A c \in Conn : Fairness(c)

-----------------------------------------------------------------------------
Heights == 0..Max({height_of[h] : h \in Hash})

TypeOK ==
  /\ Starts(q) \subseteq Heights
  /\ \A h \in Starts(q) : /\ q.blocks[h].conn \in Ids /\ q.blocks[h].n \in Nat \ {0}
                          /\ q.blocks[h].hashes \in Seq(Hash) /\ q.blocks[h].blocks \in Seq(Hash)
  /\ q.requested \subseteq Hash /\ DOMAIN q.have \subseteq Hash
  /\ known \subseteq Hash /\ top \in known
  /\ \A c \in Conn : ctx[c].callbacks \in 0..4
  /\ lock \in Conn \cup {NoConn}

(* A hash is in requested_hashes only while a span of the queue lists it.  *)
(* One that stayed behind would never be asked of any peer again: both     *)
(* reserve_span and the check for the parent in try_add_next_blocks take   *)
(* it for a block on its way.                                              *)
NoLeakedRequest == q.requested \subseteq HashesOf(q, Starts(q))

(* A peer in state synchronizing has a request out or a callback coming,   *)
(* whenever no handler of its connection runs: otherwise nothing would     *)
(* ever use that connection again, as timed syncs skip it, kick_idle_peers *)
(* looks for an old request and check_standby_peers for state standby.     *)
(* Where a block fails, the handler that adds it returns early and leaves  *)
(* its own connection like that (GiveUp).                                  *)
Sound == world.unprepared \cup world.invalid = {}
Silent(c) ==
  /\ Ready(c) /\ ctx[c].state = "synchronizing"
  /\ ~ctx[c].waiting /\ ctx[c].callbacks = 0
NoSilentPeer == Sound => \A c \in Conn : ~Silent(c)

(* A span that is only reserved belongs to a connection that is still      *)
(* there, however closing, flushing and reserving interleave: nobody else  *)
(* would fill it, and the hashes in it are asked of nobody else.           *)
NoStaleReservation ==
  \A h \in Starts(q) : ~Filled(q.blocks[h]) =>
    q.blocks[h].conn \in {c \in Conn : link[c] # "closed"}

(* The target height is never below the chain of a connected peer that is  *)
(* longer than the node's, though on_connection_close lowers it.           *)
TargetCoversPeers == \A c \in Conn : link[c] # "closed" => remote(c) <= Larger(target, Height)

(* The queue places every hash and every block at its own height, so the   *)
(* check of the first block's height in try_add_next_blocks never fails,   *)
(* whoever's span was replaced.                                            *)
HeightsRight ==
  /\ \A h \in DOMAIN q.have : q.have[h] = height_of[h]
  /\ \A h \in Starts(q) :
       LET s == q.blocks[h]
       IN /\ \A i \in DOMAIN s.hashes : height_of[s.hashes[i]] = h + i - 1
          /\ \A i \in DOMAIN s.blocks : height_of[s.blocks[i]] = h + i - 1

(* get_next_needed_height is the first height from the node's own on that  *)
(* no span covers, whatever the overlaps, gaps and old spans of the queue. *)
NextNeededIsFirstGap ==
  LET covered(x) == \E h \in Starts(q) : x \in h..(h + q.blocks[h].n - 1)
      needed == get_next_needed_height(q, Height)
  IN needed >= Height /\ ~covered(needed) /\ \A x \in Height..(needed - 1) : covered(x)

(* Whenever request_missing_objects finds no hashes to ask for, the peer   *)
(* has more of them, or has given all it was asked for: the case the code  *)
(* logs as "final condition failed" and drops the peer for never happens.  *)
FinalCondition ==
  \A c \in Conn :
    pc[c] = "select" /\ ctx[c].needed = <<>> /\ ~act[c].force =>
      \/ ctx[c].lrh < remote(c) - 1
      \/ ctx[c].lrh = remote(c) - 1 /\ ctx[c].requested = {}

(* When the node marks itself synchronized, no peer it is connected to has *)
(* a longer chain, though target and height are read at different times.   *)
SyncedRight ==
  [][~synced /\ synced' => \A c \in Conn : link[c] # "closed" => remote(c) <= Height]_vars

(* try_add_next_blocks adds blocks "for as long as we can from the block   *)
(* queue": a received block whose parent the node has does not wait there  *)
(* for ever.                                                               *)
Addable == \E h \in FilledStarts(q) :
             ~have_block(q.blocks[h].blocks[1]) /\ have_block(prev_id[q.blocks[h].blocks[1]])
QueueDrains == Sound => []<>~Addable

(* The node catches up with the longest chain of its peers if they are     *)
(* late or leave only finitely often, unless from some time on there are   *)
(* blocks in the queue that could be added and are not: reservations,      *)
(* timeouts, standby and reconnections stop it in no other way.            *)
Goal == Max({remote(c) : c \in Conn})
CatchesUp == Sound => <>(Height >= Goal) \/ <>[]Addable

(* The node's view of each block implements the life cycle of Download.    *)
InQueue(b) == \/ \E h \in Starts(q) : b \in Range(q.blocks[h].blocks)
              \/ \E c \in Conn : b \in Range(act[c].blocks)
Stage(b) ==
  IF have_block(b) THEN "added"
  ELSE IF InQueue(b) THEN "received"
  ELSE IF b \in q.requested THEN "asked" ELSE "missing"
D == INSTANCE Download WITH stage <- [b \in Hash |-> Stage(b)]
ImplementsDownload == D!Spec
=============================================================================
