----------------------------- MODULE SyncProofs -----------------------------
(***************************************************************************)
(* Proofs about Sync for any peers, chains and sizes: requests never leak, *)
(* reservations never outlive their connection, the target height covers   *)
(* the connected peers, and the node marks itself synchronized only when   *)
(* no connected peer is ahead.                                             *)
(***************************************************************************)
EXTENDS Sync, TLAPS

-----------------------------------------------------------------------------
(* The queue by itself.                                                    *)

(* A queue with its three tables, whose spans hold blocks, and without a   *)
(* leaked request.                                                         *)
GoodSpan(s) ==
  /\ s = Span(s.conn, s.n, s.hashes, s.blocks)
  /\ \A i \in DOMAIN s.blocks : s.blocks[i] \in Hash
Good(r) ==
  /\ r = [blocks |-> r.blocks, requested |-> r.requested, have |-> r.have]
  /\ \A h \in Starts(r) : GoodSpan(r.blocks[h])
  /\ r.requested \subseteq HashesOf(r, Starts(r))

(* The reserved spans belong to connections of L.                          *)
Owned(r, L) == \A h \in Starts(r) : ~Filled(r.blocks[h]) => r.blocks[h].conn \in L

(* erase_block leaves a good queue, with the spans that are not erased.    *)
LEMMA EraseGood ==
  ASSUME NEW r, Good(r), NEW H \in SUBSET Starts(r)
  PROVE  LET e == erase_block(r, H)
         IN /\ Good(e)
            /\ Starts(e) = Starts(r) \ H
            /\ \A h \in Starts(r) \ H : e.blocks[h] = r.blocks[h]
<1> DEFINE e == erase_block(r, H)
<1>1. /\ Starts(e) = Starts(r) \ H
      /\ \A h \in Starts(r) \ H : e.blocks[h] = r.blocks[h]
      /\ e.requested = r.requested \ HashesOf(r, H)
      /\ e = [blocks |-> e.blocks, requested |-> e.requested, have |-> e.have]
  BY DEF erase_block, Without, Starts
<1>2. \A h \in Starts(e) : GoodSpan(e.blocks[h])
  BY <1>1 DEF Good
<1>3. e.requested \subseteq HashesOf(e, Starts(e))
  <2>1. HashesOf(e, Starts(e)) = UNION {Range(r.blocks[h].hashes) : h \in Starts(r) \ H}
    BY <1>1 DEF HashesOf
  <2>2. HashesOf(r, Starts(r)) \ HashesOf(r, H) \subseteq HashesOf(e, Starts(e))
    BY <2>1 DEF HashesOf
  <2> QED BY <1>1, <2>2 DEF Good
<1> QED BY <1>1, <1>2, <1>3 DEF Good

(* erase_block reserves nothing.                                           *)
LEMMA EraseOwned ==
  ASSUME NEW r, Good(r), NEW H \in SUBSET Starts(r), NEW L, Owned(r, L)
  PROVE  Owned(erase_block(r, H), L)
BY EraseGood DEF Owned

(* set_span_hashes on a span that lists no hashes yet, or on none at all;  *)
(* extra are hashes that only this call accounts for.                      *)
LEMMA SetHashesGood ==
  ASSUME NEW r, NEW start, NEW conn, NEW hashes,
         r = [blocks |-> r.blocks, requested |-> r.requested, have |-> r.have],
         \A h \in Starts(r) : GoodSpan(r.blocks[h]),
         \/ r.requested \subseteq HashesOf(r, Starts(r))
         \/ /\ start \in Starts(r) /\ r.blocks[start].conn = conn
            /\ r.requested \subseteq HashesOf(r, Starts(r)) \cup Range(hashes)
  PROVE  LET e == set_span_hashes(r, start, conn, hashes)
         IN /\ Good(e)
            /\ \A L : Owned(r, L) => Owned(e, L)
<1> DEFINE e == set_span_hashes(r, start, conn, hashes)
<1>1. CASE ~(start \in Starts(r) /\ r.blocks[start].conn = conn)
  <2>1. e = r
    BY <1>1 DEF set_span_hashes
  <2> QED BY <1>1, <2>1 DEF Good
<1>2. CASE start \in Starts(r) /\ r.blocks[start].conn = conn
  <2> DEFINE s == [r.blocks[start] EXCEPT !.hashes = hashes]
             R == r.requested \ HashesOf(r, {start})
  <2>1. /\ DOMAIN e.blocks = Starts(r)
        /\ e.blocks[start] = s
        /\ \A h \in Starts(r) \ {start} : e.blocks[h] = r.blocks[h]
        /\ e.requested = R \cup Range(hashes)
        /\ e = [blocks |-> e.blocks, requested |-> e.requested, have |-> e.have]
    BY <1>2 DEF set_span_hashes, erase_block, Put, Without, Starts
  <2>2. /\ s.hashes = hashes /\ s.blocks = r.blocks[start].blocks
        /\ s.conn = r.blocks[start].conn
        /\ s = Span(s.conn, s.n, s.hashes, s.blocks)
    <3> DEFINE t == r.blocks[start]
    <3>1. t = [conn |-> t.conn, n |-> t.n, hashes |-> t.hashes, blocks |-> t.blocks]
      BY <1>2 DEF GoodSpan, Span
    <3> HIDE DEF t
    <3>2. s = [conn |-> t.conn, n |-> t.n, hashes |-> hashes, blocks |-> t.blocks]
      BY <3>1 DEF t
    <3> QED BY <3>2 DEF Span, t
  <2> HIDE DEF s
  <2>3. \A h \in Starts(e) : GoodSpan(e.blocks[h])
    BY <1>2, <2>1, <2>2 DEF GoodSpan, Starts
  <2>4. e.requested \subseteq HashesOf(e, Starts(e))
    <3>1. Range(hashes) \subseteq HashesOf(e, Starts(e))
      BY <1>2, <2>1, <2>2 DEF HashesOf, Starts
    <3>2. r.requested \subseteq HashesOf(r, Starts(r)) \cup Range(hashes)
      OBVIOUS
    <3>3. HashesOf(r, Starts(r)) \ HashesOf(r, {start}) \subseteq HashesOf(e, Starts(e))
      BY <2>1 DEF HashesOf, Starts
    <3> QED BY <2>1, <3>1, <3>2, <3>3
  <2>5. ASSUME NEW L, Owned(r, L) PROVE Owned(e, L)
    <3>1. ~Filled(s) => s.conn \in L
      BY <1>2, <2>2, <2>5 DEF Owned, Filled
    <3> QED BY <2>1, <2>5, <3>1 DEF Owned, Starts
  <2> QED BY <2>1, <2>3, <2>4, <2>5 DEF Good
<1> QED BY <1>1, <1>2

(* add_scheduled leaves a good queue; the new span belongs to conn.        *)
LEMMA AddScheduledGood ==
  ASSUME NEW r, Good(r), NEW height, NEW n, NEW conn
  PROVE  LET e == add_scheduled(r, height, n, conn)
         IN /\ Good(e)
            /\ \A L : Owned(r, L) /\ conn \in L => Owned(e, L)
<1> DEFINE e == add_scheduled(r, height, n, conn)
<1>1. CASE height \in Starts(r)
  BY <1>1 DEF add_scheduled
<1>2. CASE height \notin Starts(r)
  <2>1. /\ DOMAIN e.blocks = Starts(r) \cup {height}
        /\ e.blocks[height] = Span(conn, n, <<>>, <<>>)
        /\ \A h \in Starts(r) : e.blocks[h] = r.blocks[h]
        /\ e.requested = r.requested
        /\ e = [blocks |-> e.blocks, requested |-> e.requested, have |-> e.have]
    BY <1>2 DEF add_scheduled, Put, Starts, Good
  <2>2. GoodSpan(Span(conn, n, <<>>, <<>>)) /\ Span(conn, n, <<>>, <<>>).conn = conn
    BY DEF GoodSpan, Span
  <2>3. e.requested \subseteq HashesOf(e, Starts(e))
    <3>1. HashesOf(r, Starts(r)) \subseteq HashesOf(e, Starts(e))
      BY <2>1 DEF HashesOf, Starts
    <3> QED BY <2>1, <3>1 DEF Good
  <2>4. Good(e)
    BY <2>1, <2>2, <2>3 DEF Good, Starts
  <2>5. ASSUME NEW L, Owned(r, L), conn \in L PROVE Owned(e, L)
    BY <2>1, <2>2, <2>5 DEF Owned, Starts
  <2> QED BY <2>4, <2>5
<1> QED BY <1>1, <1>2

(* What reserve_span leaves when it reserves something.                    *)
LEMMA ReserveGood ==
  ASSUME NEW r, Good(r), NEW last, NEW max, NEW conn, NEW needed, NEW L, Owned(r, L), conn \in L
  PROVE  LET e == reserve_span(r, last, max, conn, needed).q
         IN Good(e) /\ Owned(e, L)
<1> DEFINE k     == NumRequested(r, needed)
           start == last - Len(needed) + 1 + k
           n     == Min({max, Len(needed) - k})
           t     == add_scheduled(r, start, n, conn)
           e     == set_span_hashes(t, start, conn, SubSeq(needed, k + 1, k + n))
<1>1. \/ reserve_span(r, last, max, conn, needed).q = r
      \/ reserve_span(r, last, max, conn, needed).q = e
  BY DEF reserve_span, NoSpan
<1>2. Good(t) /\ Owned(t, L)
  BY AddScheduledGood
<1>3. Good(e) /\ Owned(e, L)
  <2> HIDE DEF t, k, start, n
  <2> QED BY <1>2, SetHashesGood DEF Good
<1> QED BY <1>1, <1>3

(* add_blocks of received blocks leaves a good queue and no new            *)
(* reservation, whatever span it replaces.                                 *)
LEMMA AddBlocksGood ==
  ASSUME NEW r, Good(r), NEW height, NEW bcel, NEW conn, NEW L, Owned(r, L),
         bcel # <<>>, \A i \in DOMAIN bcel : bcel[i] \in Hash
  PROVE  LET e == add_blocks(r, height, bcel, conn) IN Good(e) /\ Owned(e, L)
<1> DEFINE t == erase_block(r, {height} \cap Starts(r))
           s == Span(conn, Len(bcel), <<>>, bcel)
           B == Put(t.blocks, height, s)
           hashes == r.blocks[height].hashes
<1>1. /\ Good(t) /\ Owned(t, L)
      /\ Starts(t) = Starts(r) \ {height}
  <2>1. {height} \cap Starts(r) \in SUBSET Starts(r)
    OBVIOUS
  <2>2. Starts(r) \ ({height} \cap Starts(r)) = Starts(r) \ {height}
    OBVIOUS
  <2> QED BY <2>1, <2>2, EraseGood, EraseOwned
<1> HIDE DEF t
<1>2. /\ DOMAIN B = Starts(t) \cup {height}
      /\ B[height] = s
      /\ \A h \in Starts(t) : B[h] = t.blocks[h]
  BY <1>1 DEF Put, Starts
<1>3. GoodSpan(s) /\ Filled(s) /\ s.conn = conn
  BY DEF GoodSpan, Span, Filled
<1> HIDE DEF s, B
<1>4. ASSUME NEW f, f.blocks = B, f = [blocks |-> f.blocks, requested |-> f.requested, have |-> f.have]
      PROVE  /\ Starts(f) = Starts(t) \cup {height}
             /\ f.blocks[height].conn = conn
             /\ \A h \in Starts(f) : GoodSpan(f.blocks[h])
             /\ HashesOf(t, Starts(t)) \subseteq HashesOf(f, Starts(f))
             /\ Owned(f, L)
  <2>1. Starts(f) = Starts(t) \cup {height} /\ f.blocks[height].conn = conn
    BY <1>2, <1>3, <1>4 DEF Starts
  <2>2. \A h \in Starts(f) : GoodSpan(f.blocks[h])
    BY <1>1, <1>2, <1>3, <1>4, <2>1 DEF Good
  <2>3. HashesOf(t, Starts(t)) \subseteq HashesOf(f, Starts(f))
    BY <1>2, <1>4, <1>1, <2>1 DEF HashesOf
  <2>4. Owned(f, L)
    BY <1>1, <1>2, <1>3, <1>4, <2>1 DEF Owned
  <2> QED BY <2>1, <2>2, <2>3, <2>4
<1>5. CASE height \notin Starts(r)
  <2> DEFINE e == [t EXCEPT !.blocks = B]
  <2>1. add_blocks(r, height, bcel, conn) = e
    BY <1>5 DEF add_blocks, t, B, s
  <2>2. /\ e.blocks = B /\ e.requested = t.requested
        /\ e = [blocks |-> e.blocks, requested |-> e.requested, have |-> e.have]
    BY <1>1 DEF Good
  <2> HIDE DEF e
  <2> QED BY <1>1, <1>4, <2>1, <2>2 DEF Good
<1>6. CASE height \in Starts(r)
  <2> DEFINE f == [blocks    |-> B,
                   requested |-> t.requested \cup Range(hashes),
                   have      |-> [x \in DOMAIN t.have \cup Range(hashes) |->
                                    IF x \in DOMAIN t.have THEN t.have[x] ELSE place(hashes, height, x)]]
             e == set_span_hashes(f, height, conn, hashes)
  <2>1. add_blocks(r, height, bcel, conn) = e
    BY <1>6 DEF add_blocks, t, B, s
  <2>2. /\ f.blocks = B /\ f.requested = t.requested \cup Range(hashes)
        /\ f = [blocks |-> f.blocks, requested |-> f.requested, have |-> f.have]
    OBVIOUS
  <2> HIDE DEF f, hashes
  <2>3. f.requested \subseteq HashesOf(f, Starts(f)) \cup Range(hashes)
    BY <1>1, <1>4, <2>2 DEF Good
  <2>4. Good(e) /\ Owned(e, L)
    BY <1>4, <2>2, <2>3, SetHashesGood
  <2> QED BY <2>1, <2>4
<1> QED BY <1>5, <1>6

-----------------------------------------------------------------------------
(* The inductive invariant.                                                *)

Live == {c \in Conn : link[c] # "closed"}

GoodAct(a) ==
  /\ "blocks" \in DOMAIN a
  /\ \A j \in DOMAIN a.blocks : a.blocks[j] \in Hash

(* A handler runs only on a connection that is not closed.                 *)
LinkInv ==
  /\ world \in Worlds
  /\ link \in [Conn -> {"closed", "open", "dropping"}]
  /\ pc \in [Conn -> {"idle", "trylock", "next", "verify", "stop", "decide", "select"}]
  /\ \A c \in Conn : pc[c] # "idle" => link[c] # "closed"

ActInv == act = [c \in Conn |-> act[c]] /\ \A c \in Conn : GoodAct(act[c])

(* The core has no block above its top.                                    *)
CoreInv ==
  /\ known \subseteq Hash /\ top \in Hash
  /\ \A h \in known : height_of[h] <= height_of[top]

QueueInv == Good(q) /\ Owned(q, Live)

TargetInv == target \in Nat /\ TargetCoversPeers

Inv == LinkInv /\ ActInv /\ CoreInv /\ QueueInv /\ TargetInv

(* The peers' chains are chains: heights count from the genesis block.     *)
LEMMA RemoteType ==
  ASSUME LinkInv, CoreInv, NEW c \in Conn
  PROVE  /\ remote(c) \in Nat /\ Height \in Nat
         /\ \A b \in Range(chain_of(c)) : b \in Hash
         /\ have_block(Last(chain_of(c))) => remote(c) <= Height
<1> DEFINE s == world.chain[c]
<1>1. s \in Seq(Hash) /\ s # <<>> /\ \A i \in 1..Len(s) : height_of[s[i]] = i - 1
  BY SyncAssumption DEF LinkInv
<1>2. height_of[top] \in Nat
  BY SyncAssumption DEF CoreInv
<1> HIDE DEF s
<1>3. Len(s) \in 1..Len(s) /\ Len(s) \in Nat /\ s[Len(s)] \in Hash
  BY <1>1
<1>4. \A b \in Range(s) : b \in Hash
  BY <1>1 DEF Range
<1>5. have_block(s[Len(s)]) => Len(s) <= height_of[top] + 1
  <2> SUFFICES ASSUME s[Len(s)] \in known PROVE Len(s) <= height_of[top] + 1
    BY DEF have_block
  <2>1. height_of[s[Len(s)]] <= height_of[top] /\ height_of[s[Len(s)]] = Len(s) - 1
    BY <1>1, <1>3 DEF CoreInv
  <2> QED BY <1>2, <1>3, <2>1
<1> QED BY <1>2, <1>3, <1>4, <1>5 DEF remote, chain_of, Height, Last, s

(* Asking for connections to be closed closes none.                        *)
LEMMA DroppedLive ==
  ASSUME LinkInv, NEW G
  PROVE  /\ Dropped(G) \in [Conn -> {"closed", "open", "dropping"}]
         /\ \A c \in Conn : Dropped(G)[c] = "closed" <=> link[c] = "closed"
BY DEF LinkInv, Dropped

(* The queue invariant is kept by whatever flush is made, as long as no    *)
(* connection closes.                                                      *)
LEMMA FlushesGood ==
  ASSUME QueueInv
  PROVE  /\ \A c, all : Good(flush_spans(q, c, all)) /\ Owned(flush_spans(q, c, all), Live)
         /\ \A L : Good(flush_stale_spans(q, L)) /\ Owned(flush_stale_spans(q, L), Live)
         /\ \A c, h : Good(remove_spans(q, c, h)) /\ Owned(remove_spans(q, c, h), Live)
         /\ \A c : Good(FlushHost(c)) /\ Owned(FlushHost(c), Live)
<1>1. ASSUME NEW H \in SUBSET Starts(q)
      PROVE  Good(erase_block(q, H)) /\ Owned(erase_block(q, H), Live)
  BY EraseGood, EraseOwned DEF QueueInv
<1> QED BY <1>1 DEF flush_spans, flush_stale_spans, remove_spans, FlushHost

(* The target covers the peers as long as neither it nor the height falls  *)
(* and it covers a peer whose connection opens.                            *)
LEMMA TargetKept ==
  ASSUME LinkInv, CoreInv, CoreInv', TargetInv, world' = world, target' \in Nat, target' >= target,
         height_of[top'] >= height_of[top],
         \A c \in Conn : link'[c] # "closed" =>
           link[c] # "closed" \/ remote(c) <= Larger(target', Height')
  PROVE  TargetInv'
<1>1. height_of[top] \in Nat /\ height_of[top'] \in Nat
  BY SyncAssumption DEF CoreInv
<1>2. ASSUME NEW c \in Conn, link'[c] # "closed" PROVE remote(c)' <= Larger(target', Height')
  <2>1. remote(c)' = remote(c) /\ remote(c) \in Nat
    BY RemoteType DEF remote, chain_of
  <2>2. remote(c) <= Larger(target, Height)
           \/ remote(c) <= Larger(target', Height')
    BY <1>2 DEF TargetInv, TargetCoversPeers
  <2> QED BY <1>1, <2>1, <2>2 DEF Larger, Height, TargetInv
<1> QED BY <1>2 DEF TargetInv, TargetCoversPeers, Larger, Height

(* The local variables at the places where handlers set them.              *)
LEMMA GoodNoAct ==
  /\ GoodAct(NoAct)
  /\ \A f, b, L : GoodAct([NoAct EXCEPT !.from = f, !.force = b, !.live = L])
  /\ \A h, s, o : (\A j \in DOMAIN s : s[j] \in Hash) =>
       GoodAct([NoAct EXCEPT !.start = h, !.blocks = s, !.owner = o])
<1>1. GoodAct(NoAct)
  BY DEF GoodAct, NoAct
<1>2. ASSUME NEW f, NEW b, NEW L PROVE GoodAct([NoAct EXCEPT !.from = f, !.force = b, !.live = L])
  BY DEF GoodAct, NoAct
<1>3. ASSUME NEW h, NEW s, NEW o, \A j \in DOMAIN s : s[j] \in Hash
      PROVE  GoodAct([NoAct EXCEPT !.start = h, !.blocks = s, !.owner = o])
  BY <1>3 DEF GoodAct, NoAct
<1> QED BY <1>1, <1>2, <1>3

(* Setting them for one connection.                                        *)
LEMMA ActSet ==
  ASSUME ActInv, NEW c \in Conn, NEW a, GoodAct(a), act' = [act EXCEPT ![c] = a]
  PROVE  ActInv'
BY DEF ActInv

(* The initial states satisfy the invariant.                               *)
THEOREM InitInv == Init => Inv
<1> SUFFICES ASSUME Init PROVE Inv
  OBVIOUS
<1>1. LinkInv
  BY DEF Init, LinkInv
<1>2. ActInv
  BY GoodNoAct DEF Init, ActInv
<1>3. CoreInv
  BY SyncAssumption DEF Init, CoreInv
<1>4. QueueInv
  BY DEF Init, QueueInv, Good, Owned, EmptyQueue, Starts
<1>5. TargetInv
  BY DEF Init, TargetInv, TargetCoversPeers
<1> QED BY <1>1, <1>2, <1>3, <1>4, <1>5 DEF Inv

-----------------------------------------------------------------------------
(* The steps.                                                              *)

(* A step that opens and closes no connection keeps the invariant if the   *)
(* queue stays good and neither target nor height falls.                   *)
LEMMA StepInv ==
  ASSUME Inv, world' = world,
         link' \in [Conn -> {"closed", "open", "dropping"}],
         pc' \in [Conn -> {"idle", "trylock", "next", "verify", "stop", "decide", "select"}],
         \A c \in Conn : link'[c] = "closed" <=> link[c] = "closed",
         \A c \in Conn : pc'[c] # "idle" => link[c] # "closed",
         ActInv', CoreInv', height_of[top'] >= height_of[top],
         Good(q'), Owned(q', Live), target' \in Nat, target' >= target
  PROVE  Inv'
<1>1. LinkInv'
  BY DEF Inv, LinkInv
<1>2. QueueInv'
  <2>1. Live' = Live
    BY DEF Live
  <2> QED BY <2>1 DEF QueueInv
<1>3. TargetInv'
  BY TargetKept DEF Inv
<1> QED BY <1>1, <1>2, <1>3 DEF Inv

(* A step on context, messages and times alone.                            *)
LEMMA SameInv ==
  ASSUME Inv, UNCHANGED <<q, core, target, link, pc, act, world>>
  PROVE  Inv'
BY DEF Inv, core, LinkInv, ActInv, CoreInv, QueueInv, TargetInv, TargetCoversPeers, Live, remote,
       chain_of, Height

(* What the invariant says of the variables that StepInv asks for.         *)
LEMMA InvFacts ==
  ASSUME Inv
  PROVE  /\ world \in Worlds
         /\ link \in [Conn -> {"closed", "open", "dropping"}]
         /\ pc \in [Conn -> {"idle", "trylock", "next", "verify", "stop", "decide", "select"}]
         /\ \A c \in Conn : pc[c] # "idle" => link[c] # "closed"
         /\ ActInv /\ CoreInv /\ Good(q) /\ Owned(q, Live) /\ target \in Nat
         /\ top \in Hash /\ height_of[top] \in Nat
         /\ \A c \in Conn : remote(c) \in Nat
         /\ (UNCHANGED core => CoreInv' /\ height_of[top'] >= height_of[top])
         /\ (UNCHANGED act => ActInv')
<1>1. height_of[top] \in Nat
  BY SyncAssumption DEF Inv, CoreInv
<1>2. UNCHANGED core => CoreInv' /\ height_of[top'] >= height_of[top]
  BY <1>1 DEF Inv, CoreInv, core
<1>3. UNCHANGED act => ActInv'
  BY DEF Inv, ActInv
<1> QED BY <1>1, <1>2, <1>3, RemoteType DEF Inv, LinkInv, CoreInv, QueueInv, TargetInv

(* Handshakes and timed syncs raise the target to the peer's height where  *)
(* the peer is ahead.                                                      *)
LEMMA SyncDataTarget ==
  ASSUME Inv, NEW c \in Conn, NEW x, NEW initial, SyncData(c, x, initial)
  PROVE  target' \in Nat /\ target' >= target /\ remote(c) <= Larger(target', Height)
<1>1. remote(c) \in Nat /\ Height \in Nat /\ target \in Nat
  BY RemoteType, InvFacts DEF Inv
<1>2. have_block(Last(chain_of(c))) => remote(c) <= Height
  BY RemoteType DEF Inv
<1> QED BY <1>1, <1>2 DEF SyncData, Larger

(* Renaming the owner of a closed connection's spans.                      *)
LEMMA FormerGood ==
  ASSUME QueueInv, NEW c \in Conn, link[c] = "closed", NEW e, e = Renamed(q, c)
  PROVE  Good(e) /\ Owned(e, Live)
<1> DEFINE S == [h \in DOMAIN q.blocks |-> [q.blocks[h] EXCEPT !.conn = Former(@, c)]]
<1>1. e = [q EXCEPT !.blocks = S]
  BY DEF Renamed, Starts
<1>2. ASSUME NEW h \in Starts(q)
      PROVE  /\ GoodSpan(S[h]) /\ S[h].hashes = q.blocks[h].hashes
             /\ S[h].blocks = q.blocks[h].blocks
             /\ S[h].conn = Former(q.blocks[h].conn, c)
  <2> DEFINE t == q.blocks[h]
  <2>1. /\ t = [conn |-> t.conn, n |-> t.n, hashes |-> t.hashes, blocks |-> t.blocks]
        /\ \A i \in DOMAIN t.blocks : t.blocks[i] \in Hash
    BY DEF QueueInv, Good, GoodSpan, Span
  <2>2. S[h] = [t EXCEPT !.conn = Former(@, c)]
    BY DEF Starts
  <2> HIDE DEF t, S
  <2>3. S[h] = [conn |-> Former(t.conn, c), n |-> t.n, hashes |-> t.hashes, blocks |-> t.blocks]
    BY <2>1, <2>2
  <2> QED BY <2>1, <2>3 DEF GoodSpan, Span, t
<1>3. DOMAIN S = Starts(q)
  BY DEF Starts
<1> HIDE DEF S
<1>4. /\ e.blocks = S /\ e.requested = q.requested
      /\ e = [blocks |-> e.blocks, requested |-> e.requested, have |-> e.have]
      /\ Starts(e) = Starts(q)
  BY <1>1, <1>3 DEF QueueInv, Good, Starts
<1>5. HashesOf(e, Starts(e)) = HashesOf(q, Starts(q))
  <2>1. \A h \in Starts(q) : Range(e.blocks[h].hashes) = Range(q.blocks[h].hashes)
    BY <1>2, <1>4
  <2> QED BY <1>4, <2>1 DEF HashesOf
<1>6. Good(e)
  BY <1>2, <1>4, <1>5 DEF Good, QueueInv
<1>7. ASSUME NEW h \in Starts(q), ~Filled(S[h]) PROVE S[h].conn \in Live
  <2>1. q.blocks[h].conn \in Live
    BY <1>2, <1>7 DEF Filled, QueueInv, Owned
  <2>2. q.blocks[h].conn # c
    BY <2>1 DEF Live
  <2> QED BY <1>2, <2>1, <2>2 DEF Former
<1> QED BY <1>4, <1>6, <1>7 DEF Owned

(* A connection opens: the target is raised over its peer's height.        *)
LEMMA ConnectInv ==
  ASSUME Inv, NEW c \in Conn, Connect(c)
  PROVE  Inv'
<1>1. /\ link[c] = "closed" /\ q' = Renamed(q, c)
      /\ act' = [d \in Conn |-> [act[d] EXCEPT !.owner = Former(@, c)]]
      /\ link' = [link EXCEPT ![c] = "open"]
      /\ SyncData(c, FreshContext, TRUE)
      /\ UNCHANGED <<core, pc, world>>
  BY DEF Connect
<1>2. Good(q') /\ Owned(q', Live)
  BY <1>1, FormerGood DEF Inv
<1>3. LinkInv'
  BY <1>1 DEF Inv, LinkInv
<1>4. QueueInv'
  <2>1. Live \subseteq Live'
    BY <1>1 DEF Live, Inv, LinkInv
  <2> QED BY <1>2, <2>1 DEF QueueInv, Owned
<1>5. ActInv'
  <2>1. ASSUME NEW d \in Conn PROVE GoodAct([act[d] EXCEPT !.owner = Former(@, c)])
    BY DEF Inv, ActInv, GoodAct
  <2> QED BY <1>1, <2>1 DEF ActInv
<1>6. CoreInv' /\ height_of[top'] >= height_of[top]
  BY <1>1, InvFacts
<1>7. TargetInv'
  <2>1. target' \in Nat /\ target' >= target /\ remote(c) <= Larger(target', Height)
    BY <1>1, SyncDataTarget
  <2>2. Height' = Height
    BY <1>1 DEF Height, core
  <2>3. \A d \in Conn : link'[d] # "closed" =>
          link[d] # "closed" \/ remote(d) <= Larger(target', Height')
    BY <1>1, <2>1, <2>2 DEF Inv, LinkInv
  <2> QED BY <1>1, <1>6, <2>1, <2>3, TargetKept DEF Inv
<1> QED BY <1>3, <1>4, <1>5, <1>6, <1>7 DEF Inv

(* A timed sync.                                                           *)
LEMMA TimedSyncInv ==
  ASSUME Inv, NEW c \in Conn, TimedSync(c)
  PROVE  Inv'
<1>1. SyncData(c, ctx[c], FALSE) /\ UNCHANGED <<q, core, link, pc, act, world>>
  BY DEF TimedSync
<1>2. target' \in Nat /\ target' >= target
  BY <1>1, SyncDataTarget
<1> QED BY <1>1, <1>2, StepInv, InvFacts

(* The connection c is dropped, its reservations in r being flushed.       *)
LEMMA DropFacts ==
  ASSUME Inv, NEW c \in Conn, NEW p \in Conn, NEW G, NEW r, Good(r), Owned(r, Live),
         link' = Dropped(G), pc' = [pc EXCEPT ![p] = "idle"]
  PROVE  /\ link' \in [Conn -> {"closed", "open", "dropping"}]
         /\ pc' \in [Conn -> {"idle", "trylock", "next", "verify", "stop", "decide", "select"}]
         /\ \A d \in Conn : link'[d] = "closed" <=> link[d] = "closed"
         /\ \A d \in Conn : pc'[d] # "idle" => link[d] # "closed"
         /\ Good(flush_spans(r, c, FALSE)) /\ Owned(flush_spans(r, c, FALSE), Live)
<1>1. Good(flush_spans(r, c, FALSE)) /\ Owned(flush_spans(r, c, FALSE), Live)
  BY EraseGood, EraseOwned DEF flush_spans
<1> QED BY <1>1, DroppedLive, InvFacts DEF Inv

(* A step that only drops the connection.                                  *)
LEMMA DropInv ==
  ASSUME Inv, NEW c \in Conn, NEW r, Good(r), Owned(r, Live), world' = world, UNCHANGED core,
         q' = flush_spans(r, c, FALSE), link' = Dropped({c}), pc' = [pc EXCEPT ![c] = "idle"],
         ActInv', target' \in Nat, target' >= target
  PROVE  Inv'
<1>1. /\ link' \in [Conn -> {"closed", "open", "dropping"}]
      /\ pc' \in [Conn -> {"idle", "trylock", "next", "verify", "stop", "decide", "select"}]
      /\ \A d \in Conn : link'[d] = "closed" <=> link[d] = "closed"
      /\ \A d \in Conn : pc'[d] # "idle" => link[d] # "closed"
      /\ Good(q') /\ Owned(q', Live)
  BY DropFacts
<1> QED BY <1>1, StepInv, InvFacts

(* The handler of a live connection moves on.                              *)
LEMMA MoveFacts ==
  ASSUME Inv, NEW c \in Conn, link[c] # "closed", UNCHANGED link,
         NEW to \in {"idle", "trylock", "next", "verify", "stop", "decide", "select"},
         pc' = [pc EXCEPT ![c] = to]
  PROVE  /\ link' \in [Conn -> {"closed", "open", "dropping"}]
         /\ pc' \in [Conn -> {"idle", "trylock", "next", "verify", "stop", "decide", "select"}]
         /\ \A d \in Conn : link'[d] = "closed" <=> link[d] = "closed"
         /\ \A d \in Conn : pc'[d] # "idle" => link[d] # "closed"
BY InvFacts

(* Callbacks.                                                              *)
LEMMA OnCallbackInv ==
  ASSUME Inv, NEW c \in Conn, OnCallback(c)
  PROVE  Inv'
<1>1. link[c] # "closed" /\ pc[c] = "idle" /\ UNCHANGED <<core, target, act, world>>
  BY DEF OnCallback, Ready
<1>2. \/ \E x : Drop(c, x)
      \/ UNCHANGED <<q, link, pc>>
      \/ UNCHANGED <<q, link>> /\ pc' = [pc EXCEPT ![c] = "trylock"]
  BY DEF OnCallback
<1>3. CASE \E x : Drop(c, x)
  <2>1. q' = flush_spans(q, c, FALSE) /\ link' = Dropped({c}) /\ pc' = [pc EXCEPT ![c] = "idle"]
    BY <1>3 DEF Drop
  <2>2. ActInv' /\ target' \in Nat /\ target' >= target /\ Good(q) /\ Owned(q, Live)
    BY <1>1, InvFacts
  <2>3. world' = world /\ UNCHANGED core
    BY <1>1
  <2> QED BY <2>1, <2>2, <2>3, DropInv
<1>4. CASE UNCHANGED <<q, link, pc>>
  BY <1>1, <1>4, SameInv
<1>5. CASE UNCHANGED <<q, link>> /\ pc' = [pc EXCEPT ![c] = "trylock"]
  BY <1>1, <1>5, MoveFacts, StepInv, InvFacts
<1> QED BY <1>2, <1>3, <1>4, <1>5

(* request_missing_objects begins.                                         *)
LEMMA RequestingInv ==
  ASSUME Inv, NEW c \in Conn, link[c] # "closed", NEW from, NEW force, Requesting(c, from, force),
         UNCHANGED <<core, target, link, world>>, Good(q'), Owned(q', Live)
  PROVE  Inv'
<1>1. pc' = [pc EXCEPT ![c] = "decide"] /\ ActInv'
  BY ActSet, GoodNoAct DEF Requesting, Inv
<1>2. /\ link' \in [Conn -> {"closed", "open", "dropping"}]
      /\ pc' \in [Conn -> {"idle", "trylock", "next", "verify", "stop", "decide", "select"}]
      /\ \A d \in Conn : link'[d] = "closed" <=> link[d] = "closed"
      /\ \A d \in Conn : pc'[d] # "idle" => link[d] # "closed"
  BY <1>1, MoveFacts
<1> QED BY <1>1, <1>2, StepInv, InvFacts

(* The answer to a chain request.                                          *)
LEMMA ChainEntryInv ==
  ASSUME Inv, NEW c \in Conn, link[c] # "closed", NEW start, HandleChainEntry(c, start),
         UNCHANGED <<core, target, world>>
  PROVE  Inv'
<1>1. \/ \E x : Drop(c, x) /\ UNCHANGED act
      \/ Requesting(c, "chain", FALSE) /\ UNCHANGED <<q, link>>
  BY DEF HandleChainEntry
<1>2. CASE \E x : Drop(c, x) /\ UNCHANGED act
  <2>1. q' = flush_spans(q, c, FALSE) /\ link' = Dropped({c}) /\ pc' = [pc EXCEPT ![c] = "idle"]
    BY <1>2 DEF Drop
  <2>2. ActInv' /\ target' \in Nat /\ target' >= target /\ Good(q) /\ Owned(q, Live)
    BY <1>2, InvFacts
  <2> QED BY <2>1, <2>2, DropInv
<1>3. CASE Requesting(c, "chain", FALSE) /\ UNCHANGED <<q, link>>
  <2>1. Good(q') /\ Owned(q', Live)
    BY <1>3, InvFacts
  <2> QED BY <1>3, <2>1, RequestingInv
<1> QED BY <1>1, <1>2, <1>3

(* The answer to a request for blocks.                                     *)
LEMMA ObjectsInv ==
  ASSUME Inv, NEW c \in Conn, link[c] # "closed", NEW hashes, HandleObjects(c, hashes),
         UNCHANGED <<core, act, world>>
  PROVE  Inv'
<1> DEFINE bcel == Range(hashes) \cap Range(chain_of(c))
           start == height_of[hashes[1]]
<1>1. \/ \E x : Drop(c, x) /\ (UNCHANGED target \/ target' = Larger(target, remote(c)))
      \/ /\ bcel # {} /\ bcel = Range(hashes)
         /\ target' = Larger(target, remote(c))
         /\ q' = add_blocks(q, start, hashes, c)
         /\ pc' = [pc EXCEPT ![c] = "trylock"]
         /\ UNCHANGED link
  BY DEF HandleObjects
<1>2. target \in Nat /\ remote(c) \in Nat /\ ActInv' /\ Good(q) /\ Owned(q, Live)
  BY InvFacts
<1>3. CASE \E x : Drop(c, x) /\ (UNCHANGED target \/ target' = Larger(target, remote(c)))
  <2>1. q' = flush_spans(q, c, FALSE) /\ link' = Dropped({c}) /\ pc' = [pc EXCEPT ![c] = "idle"]
    BY <1>3 DEF Drop
  <2>2. target' \in Nat /\ target' >= target
    BY <1>2, <1>3 DEF Larger
  <2> QED BY <1>2, <2>1, <2>2, DropInv
<1>4. CASE /\ bcel # {} /\ bcel = Range(hashes)
           /\ target' = Larger(target, remote(c))
           /\ q' = add_blocks(q, start, hashes, c)
           /\ pc' = [pc EXCEPT ![c] = "trylock"]
           /\ UNCHANGED link
  <2>1. hashes # <<>> /\ \A i \in DOMAIN hashes : hashes[i] \in Hash
    <3>1. \A b \in Range(hashes) : b \in Hash
      BY <1>4, RemoteType DEF Inv
    <3>2. \E b : b \in Range(hashes)
      BY <1>4
    <3> QED BY <3>1, <3>2 DEF Range
  <2>2. Good(q') /\ Owned(q', Live)
    BY <1>2, <1>4, <2>1, AddBlocksGood
  <2>3. target' \in Nat /\ target' >= target
    BY <1>2, <1>4 DEF Larger
  <2>4. /\ link' \in [Conn -> {"closed", "open", "dropping"}]
        /\ pc' \in [Conn -> {"idle", "trylock", "next", "verify", "stop", "decide", "select"}]
        /\ \A d \in Conn : link'[d] = "closed" <=> link[d] = "closed"
        /\ \A d \in Conn : pc'[d] # "idle" => link[d] # "closed"
    BY <1>4, MoveFacts
  <2> QED BY <1>2, <2>2, <2>3, <2>4, StepInv, InvFacts
<1> QED BY <1>1, <1>3, <1>4

(* An answer arrives.                                                      *)
LEMMA DeliverInv ==
  ASSUME Inv, NEW c \in Conn, Deliver(c)
  PROVE  Inv'
<1>1. /\ link[c] # "closed" /\ UNCHANGED <<core, world>>
      /\ \/ \E start : HandleChainEntry(c, start) /\ UNCHANGED target
         \/ \E hashes : HandleObjects(c, hashes) /\ UNCHANGED act
  BY DEF Deliver, Ready
<1> QED BY <1>1, ChainEntryInv, ObjectsInv

-----------------------------------------------------------------------------
(* Adding blocks.                                                          *)

(* Trying the lock.                                                        *)
LEMMA TryLockInv ==
  ASSUME Inv, NEW c \in Conn, TryLock(c)
  PROVE  Inv'
<1>1. link[c] # "closed" /\ Good(q') /\ Owned(q', Live) /\ UNCHANGED <<q, core, target, link, world>>
  BY InvFacts DEF TryLock
<1>2. \/ pc' = [pc EXCEPT ![c] = "next"] /\ UNCHANGED act
      \/ Requesting(c, "add", FALSE)
  BY DEF TryLock, ToRequest
<1>3. CASE pc' = [pc EXCEPT ![c] = "next"] /\ UNCHANGED act
  BY <1>1, <1>3, MoveFacts, StepInv, InvFacts
<1> QED BY <1>1, <1>2, <1>3, RequestingInv

(* A handler gives up, closing none of the connections it drops.           *)
LEMMA GiveUpInv ==
  ASSUME Inv, NEW c \in Conn, NEW owner, GiveUp(c, owner), Good(q'), Owned(q', Live),
         UNCHANGED <<core, target, world>>
  PROVE  Inv'
<1>1. link' = Dropped(SameHost(owner)) /\ pc' = [pc EXCEPT ![c] = "idle"] /\ ActInv'
  BY ActSet, GoodNoAct DEF GiveUp, Inv
<1>2. /\ link' \in [Conn -> {"closed", "open", "dropping"}]
      /\ pc' \in [Conn -> {"idle", "trylock", "next", "verify", "stop", "decide", "select"}]
      /\ \A d \in Conn : link'[d] = "closed" <=> link[d] = "closed"
      /\ \A d \in Conn : pc'[d] # "idle" => link[d] # "closed"
  BY <1>1, DropFacts, InvFacts
<1> QED BY <1>1, <1>2, StepInv, InvFacts

(* Looking at the next received span.                                      *)
LEMMA NextSpanInv ==
  ASSUME Inv, NEW c \in Conn, NextSpan(c)
  PROVE  Inv'
<1>1. /\ link[c] # "closed" /\ QueueInv /\ UNCHANGED <<core, target, world>>
      /\ \/ Stop(c)
         \/ \E h \in Starts(q) : LookAt(c, h, q.blocks[h])
  BY InvFacts DEF NextSpan, get_next_span, FilledStarts, QueueInv
<1>2. CASE Stop(c)
  <2>1. pc' = [pc EXCEPT ![c] = "stop"] /\ UNCHANGED <<q, link, act>>
    BY <1>2 DEF Stop
  <2> QED BY <1>1, <2>1, MoveFacts, StepInv, InvFacts
<1>3. ASSUME NEW h \in Starts(q), LookAt(c, h, q.blocks[h]) PROVE Inv'
  <2> DEFINE s == q.blocks[h]
             a == [NoAct EXCEPT !.start = h, !.blocks = s.blocks, !.owner = s.conn]
  <2>1. \/ q' = remove_spans(q, s.conn, h) /\ UNCHANGED <<link, pc, act>>
        \/ Stop(c)
        \/ /\ q' = q \/ q' = remove_spans(q, s.conn, h)
           /\ Requesting(c, "add", FALSE) /\ UNCHANGED link
        \/ /\ act' = [act EXCEPT ![c] = a] /\ pc' = [pc EXCEPT ![c] = "verify"]
           /\ UNCHANGED <<q, link>>
        \/ q' = FlushHost(s.conn) /\ GiveUp(c, s.conn)
    BY <1>3 DEF LookAt, ToRequest
  <2>2. CASE q' = remove_spans(q, s.conn, h) /\ UNCHANGED <<link, pc, act>>
    <3>1. Good(q') /\ Owned(q', Live)
      BY <1>1, <2>2, FlushesGood
    <3> QED BY <1>1, <2>2, <3>1, StepInv, InvFacts
  <2>3. CASE /\ q' = q \/ q' = remove_spans(q, s.conn, h)
             /\ Requesting(c, "add", FALSE) /\ UNCHANGED link
    <3>1. Good(q') /\ Owned(q', Live)
      BY <1>1, <2>3, FlushesGood DEF QueueInv
    <3> QED BY <1>1, <2>3, <3>1, RequestingInv
  <2>4. CASE /\ act' = [act EXCEPT ![c] = a] /\ pc' = [pc EXCEPT ![c] = "verify"]
             /\ UNCHANGED <<q, link>>
    <3>1. GoodAct(a)
      <4>1. \A j \in DOMAIN s.blocks : s.blocks[j] \in Hash
        BY <1>1, <1>3 DEF QueueInv, Good, GoodSpan
      <4> HIDE DEF s
      <4> QED BY <4>1, GoodNoAct
    <3>2. ActInv'
      BY <2>4, <3>1, ActSet DEF Inv
    <3> QED BY <1>1, <2>4, <3>2, MoveFacts, StepInv, InvFacts
  <2>5. CASE q' = FlushHost(s.conn) /\ GiveUp(c, s.conn)
    <3>1. Good(q') /\ Owned(q', Live)
      BY <1>1, <2>5, FlushesGood
    <3> QED BY <1>1, <2>5, <3>1, GiveUpInv
  <2> QED BY <1>2, <2>1, <2>2, <2>3, <2>4, <2>5
<1> QED BY <1>1, <1>2, <1>3

(* The loop ends.                                                          *)
LEMMA StopAddingInv ==
  ASSUME Inv, NEW c \in Conn, StopAdding(c)
  PROVE  Inv'
<1>1. /\ link[c] # "closed" /\ Good(q') /\ Owned(q', Live) /\ UNCHANGED <<core, target, link, world>>
      /\ \E force : Requesting(c, "add", force)
  BY InvFacts DEF StopAdding, ToRequest
<1> QED BY <1>1, RequestingInv

(* A block is handed to the core: the main chain never gets shorter.       *)
LEMMA VerifyBlockInv ==
  ASSUME Inv, NEW c \in Conn, VerifyBlock(c)
  PROVE  Inv'
<1> DEFINE b == act[c].blocks[act[c].i]
           owner == act[c].owner
<1>1. /\ act[c].i \in DOMAIN act[c].blocks
      /\ UNCHANGED <<target, world>>
      /\ \/ /\ known' = known \cup {b} /\ top' = NewTop(b)
            /\ act' = [act EXCEPT ![c].i = @ + 1]
            /\ UNCHANGED <<q, link, pc>>
         \/ /\ q' = remove_spans(FlushHost(owner), owner, act[c].start)
            /\ GiveUp(c, owner)
            /\ UNCHANGED core
  BY DEF VerifyBlock
<1>2. CASE /\ known' = known \cup {b} /\ top' = NewTop(b)
           /\ act' = [act EXCEPT ![c].i = @ + 1]
           /\ UNCHANGED <<q, link, pc>>
  <2>1. b \in Hash
    BY <1>1 DEF Inv, ActInv, GoodAct
  <2> HIDE DEF b
  <2>2. CoreInv' /\ height_of[top'] >= height_of[top]
    <3>1. /\ height_of[b] \in Nat /\ height_of[top] \in Nat /\ top \in Hash /\ known \subseteq Hash
          /\ \A h \in known : height_of[h] <= height_of[top] /\ height_of[h] \in Nat
      BY <2>1, SyncAssumption DEF Inv, CoreInv
    <3>2. /\ top' \in {b, top} /\ height_of[top'] >= height_of[b] /\ height_of[top'] >= height_of[top]
      BY <1>2, <3>1 DEF NewTop
    <3>3. height_of[top'] \in Nat /\ top' \in Hash
      BY <2>1, <3>1, <3>2
    <3> QED BY <1>2, <2>1, <3>1, <3>2, <3>3 DEF CoreInv
  <2>3. ActInv'
    <3>1. GoodAct([act[c] EXCEPT !.i = @ + 1])
      BY DEF Inv, ActInv, GoodAct
    <3> QED BY <1>2, <3>1, ActSet DEF Inv
  <2> QED BY <1>1, <1>2, <2>2, <2>3, StepInv, InvFacts
<1>3. CASE /\ q' = remove_spans(FlushHost(owner), owner, act[c].start)
           /\ GiveUp(c, owner)
           /\ UNCHANGED core
  <2> DEFINE r == FlushHost(owner)
  <2>1. Good(r) /\ Owned(r, Live)
    BY FlushesGood DEF Inv
  <2> HIDE DEF r
  <2>2. Good(q') /\ Owned(q', Live)
    <3>1. q' = remove_spans(r, owner, act[c].start)
      BY <1>3 DEF r
    <3> QED BY <2>1, <3>1, EraseGood, EraseOwned DEF remove_spans
  <2> QED BY <1>1, <1>3, <2>2, GiveUpInv
<1> QED BY <1>1, <1>2, <1>3

(* A span that was added is removed.                                       *)
LEMMA RemoveSpanInv ==
  ASSUME Inv, NEW c \in Conn, RemoveSpan(c)
  PROVE  Inv'
<1>1. /\ link[c] # "closed" /\ Good(q') /\ Owned(q', Live)
      /\ UNCHANGED <<core, target, link, world>>
      /\ pc' = [pc EXCEPT ![c] = "next"] /\ act' = [act EXCEPT ![c] = NoAct]
  BY InvFacts, FlushesGood DEF RemoveSpan, Inv
<1>2. ActInv'
  BY <1>1, ActSet, GoodNoAct DEF Inv
<1> QED BY <1>1, <1>2, MoveFacts, StepInv, InvFacts

-----------------------------------------------------------------------------
(* Requesting blocks.                                                      *)

(* request_missing_objects returned true.                                  *)
LEMMA FinishInv ==
  ASSUME Inv, NEW c \in Conn, link[c] # "closed", NEW x, Finish(c, x), UNCHANGED <<core, world>>,
         Good(q'), Owned(q', Live)
  PROVE  Inv'
<1>1. /\ pc' = [pc EXCEPT ![c] = "idle"] /\ act' = [act EXCEPT ![c] = NoAct] /\ UNCHANGED link
      /\ target' = target \/ target' = Larger(target, remote(c))
  BY DEF Finish
<1>2. ActInv'
  BY <1>1, ActSet, GoodNoAct DEF Inv
<1>3. target' \in Nat /\ target' >= target
  BY <1>1, InvFacts DEF Larger
<1> QED BY <1>1, <1>2, <1>3, MoveFacts, StepInv, InvFacts

(* It returned false.                                                      *)
LEMMA FailInv ==
  ASSUME Inv, NEW c \in Conn, NEW x, NEW r, Good(r), Owned(r, Live), Fail(c, x, r),
         UNCHANGED <<core, world>>
  PROVE  Inv'
<1>1. /\ q' = flush_spans(r, c, FALSE) /\ link' = Dropped({c}) /\ pc' = [pc EXCEPT ![c] = "idle"]
      /\ act' = [act EXCEPT ![c] = NoAct] /\ UNCHANGED target
  BY DEF Fail
<1>2. ActInv'
  BY <1>1, ActSet, GoodNoAct DEF Inv
<1>3. target' \in Nat /\ target' >= target
  BY <1>1, InvFacts
<1> QED BY <1>1, <1>2, <1>3, DropInv

(* Deciding whether to go on.                                              *)
LEMMA DecideInv ==
  ASSUME Inv, NEW c \in Conn, Decide(c)
  PROVE  Inv'
<1> DEFINE r == flush_stale_spans(q, act[c].live)
<1>1. /\ link[c] # "closed" /\ UNCHANGED <<core, world>>
      /\ Good(r) /\ Owned(r, Live)
  BY InvFacts, FlushesGood DEF Decide, Inv
<1>2. \/ /\ q' = r /\ pc' = [pc EXCEPT ![c] = "select"] /\ UNCHANGED <<target, link>>
         /\ UNCHANGED act \/ \E force : act' = [act EXCEPT ![c].force = force]
      \/ q' = r /\ \E x : Finish(c, x)
      \/ \E x : Fail(c, x, r)
  BY DEF Decide, Nothing
<1> HIDE DEF r
<1>3. CASE /\ q' = r /\ pc' = [pc EXCEPT ![c] = "select"] /\ UNCHANGED <<target, link>>
           /\ UNCHANGED act \/ \E force : act' = [act EXCEPT ![c].force = force]
  <2>1. ActInv'
    <3>1. ASSUME NEW force PROVE GoodAct([act[c] EXCEPT !.force = force])
      BY DEF Inv, ActInv, GoodAct
    <3>2. ASSUME NEW force, act' = [act EXCEPT ![c].force = force] PROVE ActInv'
      BY <3>1, <3>2, ActSet DEF Inv
    <3> QED BY <1>3, <3>2, InvFacts
  <2>2. target' \in Nat /\ target' >= target
    BY <1>3, InvFacts
  <2> QED BY <1>1, <1>3, <2>1, <2>2, MoveFacts, StepInv, InvFacts
<1>4. CASE q' = r /\ \E x : Finish(c, x)
  BY <1>1, <1>4, FinishInv
<1>5. CASE \E x : Fail(c, x, r)
  BY <1>1, <1>5, FailInv
<1> QED BY <1>2, <1>3, <1>4, <1>5

(* Making the request.                                                     *)
LEMMA SelectInv ==
  ASSUME Inv, NEW c \in Conn, Select(c)
  PROVE  Inv'
<1> DEFINE y == skip_unneeded_hashes(q, ctx[c], FALSE)
           R == reserve_span(q, y.lrh, BlockSyncSize, c, y.needed).q
<1>1. link[c] # "closed" /\ Good(q) /\ Owned(q, Live) /\ UNCHANGED <<core, world>>
  BY InvFacts DEF Select
<1>2. Good(R) /\ Owned(R, Live)
  <2>1. c \in Live
    BY <1>1 DEF Live
  <2> HIDE DEF y
  <2> QED BY <1>1, <2>1, ReserveGood
<1>3. \/ (q' = q \/ q' = R) /\ \E x : Finish(c, x)
      \/ \E x : Fail(c, x, q)
  <2>1. CASE SelectSpan(c)
    BY <2>1 DEF SelectSpan, AskObjects, Nothing
  <2>2. CASE SelectChain(c)
    BY <2>2 DEF SelectChain
  <2> QED BY <2>1, <2>2 DEF Select
<1> HIDE DEF R
<1>4. CASE (q' = q \/ q' = R) /\ \E x : Finish(c, x)
  BY <1>1, <1>2, <1>4, FinishInv
<1>5. CASE \E x : Fail(c, x, q)
  BY <1>1, <1>5, FailInv
<1> QED BY <1>3, <1>4, <1>5

-----------------------------------------------------------------------------
(* Closing, and all the steps together.                                    *)

(* The target that on_connection_close leaves covers the other peers.      *)
LEMMA TargetWithoutCovers ==
  ASSUME Inv, NEW c \in Conn
  PROVE  /\ TargetWithout(c) \in Nat
         /\ \A d \in Conn \ {c} : link[d] # "closed" => remote(d) <= Larger(TargetWithout(c), Height)
<1> DEFINE E      == {e \in Conn \ {c} : link[e] # "closed"}
           others == {remote(d) : d \in E}
           goal   == Max(others \cup {0})
<1>1. \A d \in Conn : remote(d) \in Nat
  BY InvFacts
<1>2. \E m \in others \cup {0} : \A n \in others \cup {0} : m >= n
  <2>1. CASE E = {}
    BY <2>1
  <2>2. CASE E # {}
    <3>1. \A S \in SUBSET Conn : S # {} => \E e \in S : \A d \in S : remote(d) <= remote(e)
      BY SyncAssumption DEF remote, chain_of, Inv, LinkInv
    <3>2. PICK e \in E : \A d \in E : remote(d) <= remote(e)
      BY <2>2, <3>1
    <3>3. remote(e) \in others \cup {0} /\ remote(e) \in Nat
      BY <1>1, <3>2
    <3>4. \A n \in others \cup {0} : remote(e) >= n
      BY <1>1, <3>2, <3>3
    <3> QED BY <3>3, <3>4
  <2> QED BY <2>1, <2>2
<1>3. goal \in others \cup {0} /\ \A n \in others \cup {0} : goal >= n
  <2> HIDE DEF others
  <2> QED BY <1>2 DEF Max
<1>4. goal \in Nat /\ \A d \in Conn \ {c} : link[d] # "closed" => remote(d) <= goal
  <2> HIDE DEF goal
  <2> QED BY <1>1, <1>3
<1>5. TargetWithout(c) = IF goal < target THEN goal ELSE target
  BY DEF TargetWithout
<1>6. target \in Nat /\ Height \in Nat /\ TargetCoversPeers
  BY InvFacts, RemoteType DEF Inv, TargetInv
<1> HIDE DEF goal
<1>7. TargetWithout(c) \in Nat
  BY <1>4, <1>5, <1>6
<1>8. ASSUME NEW d \in Conn \ {c}, link[d] # "closed"
      PROVE  remote(d) <= Larger(TargetWithout(c), Height)
  <2>1. remote(d) <= goal /\ remote(d) <= Larger(target, Height) /\ remote(d) \in Nat
    BY <1>1, <1>4, <1>6, <1>8 DEF TargetCoversPeers
  <2> QED BY <1>4, <1>5, <1>6, <2>1 DEF Larger
<1> QED BY <1>7, <1>8

(* A connection closes.                                                    *)
LEMMA CloseInv ==
  ASSUME Inv, NEW c \in Conn, on_connection_close(c)
  PROVE  Inv'
<1>1. /\ pc[c] = "idle" /\ target' = TargetWithout(c) /\ q' = flush_spans(q, c, FALSE)
      /\ link' = [link EXCEPT ![c] = "closed"]
      /\ UNCHANGED <<core, pc, act, world>>
  BY DEF on_connection_close
<1>2. LinkInv'
  BY <1>1 DEF Inv, LinkInv
<1>3. QueueInv'
  <2> DEFINE H == {h \in Starts(q) : q.blocks[h].conn = c /\ ~Filled(q.blocks[h])}
  <2>1. q' = erase_block(q, H)
    BY <1>1 DEF flush_spans
  <2>2. Good(q') /\ Starts(q') = Starts(q) \ H /\ \A h \in Starts(q) \ H : q'.blocks[h] = q.blocks[h]
    BY <2>1, EraseGood, InvFacts
  <2>3. Live' = Live \ {c}
    BY <1>1 DEF Live, Inv, LinkInv
  <2>4. Owned(q', Live')
    BY <2>2, <2>3, InvFacts DEF Owned
  <2> QED BY <2>2, <2>4 DEF QueueInv, Good, Owned, Live, Starts
<1>4. ActInv' /\ CoreInv'
  BY <1>1, InvFacts
<1>5. TargetInv'
  <2>1. Height' = Height /\ \A d \in Conn : remote(d)' = remote(d)
    BY <1>1 DEF Height, remote, chain_of, core
  <2>2. \A d \in Conn : link'[d] # "closed" => d # c /\ link[d] # "closed"
    BY <1>1 DEF Inv, LinkInv
  <2>3. \A d \in Conn : link'[d] # "closed" => remote(d)' <= Larger(target', Height')
    BY <1>1, <2>1, <2>2, TargetWithoutCovers
  <2> QED BY <1>1, <2>3, TargetWithoutCovers DEF TargetInv, TargetCoversPeers, Larger, Height
<1> QED BY <1>2, <1>3, <1>4, <1>5 DEF Inv

(* The peer closes the connection: it stays there until the node notices.  *)
LEMMA RemoteCloseInv ==
  ASSUME Inv, NEW c \in Conn, RemoteClose(c)
  PROVE  Inv'
<1>1. /\ link[c] = "open" /\ link' = [link EXCEPT ![c] = "dropping"]
      /\ UNCHANGED <<q, core, target, pc, act, world>>
  BY DEF RemoteClose
<1>2. /\ link' \in [Conn -> {"closed", "open", "dropping"}]
      /\ \A d \in Conn : link'[d] = "closed" <=> link[d] = "closed"
  BY <1>1, InvFacts
<1> QED BY <1>1, <1>2, StepInv, InvFacts

(* Every step of the node and its peers keeps the invariant.               *)
THEOREM NextInv == Inv /\ [Next]_vars => Inv'
<1> SUFFICES ASSUME Inv, [Next]_vars PROVE Inv'
  OBVIOUS
<1>1. CASE UNCHANGED vars
  BY <1>1, SameInv DEF vars, core
<1>2. CASE OnIdle
  BY <1>2, SameInv DEF OnIdle
<1>3. ASSUME NEW c \in Conn, KickIdle(c) PROVE Inv'
  BY <1>3, SameInv DEF KickIdle
<1>4. ASSUME NEW c \in Conn, CheckStandby(c) PROVE Inv'
  BY <1>4, SameInv DEF CheckStandby
<1>5. ASSUME NEW c \in Conn, Strand(c) PROVE Inv'
  BY <1>4, <1>5, ConnectInv, TimedSyncInv, OnCallbackInv, DeliverInv, TryLockInv, NextSpanInv,
     VerifyBlockInv, RemoveSpanInv, StopAddingInv, DecideInv, SelectInv, CloseInv DEF Strand
<1> QED BY <1>1, <1>2, <1>3, <1>5, RemoteCloseInv DEF Next

-----------------------------------------------------------------------------
(* Requests never leak: a hash stays in the queue's requested_hashes only  *)
(* while some span of the queue lists it, so that no block is left that    *)
(* every peer takes for somebody else's, whatever handlers interleave.     *)
THEOREM RequestsNeverLeak == Spec => []NoLeakedRequest
<1>1. Inv => NoLeakedRequest
  BY DEF Inv, QueueInv, Good, NoLeakedRequest
<1> QED BY <1>1, InitInv, NextInv, PTL DEF Spec

(* A reservation never outlives its connection: flush_spans in the close   *)
(* handler finds all of them, although a handler that was dropped may go   *)
(* on reserving until it returns.                                          *)
THEOREM ReservationsHaveOwners == Spec => []NoStaleReservation
<1>1. Inv => NoStaleReservation
  BY DEF Inv, QueueInv, Owned, Live, NoStaleReservation
<1> QED BY <1>1, InitInv, NextInv, PTL DEF Spec

(* The target height covers every connected peer that is ahead, however    *)
(* handshakes, answers, added blocks and closing connections interleave.   *)
THEOREM TargetCovers == Spec => []TargetCoversPeers
<1>1. Inv => TargetCoversPeers
  BY DEF Inv, TargetInv
<1> QED BY <1>1, InitInv, NextInv, PTL DEF Spec

(* Where the synchronized mark is set, the height has reached the target.  *)
LEMMA MarkedAtTarget ==
  ASSUME Inv, Next, ~synced, synced'
  PROVE  target = 0 \/ Height >= target
<1>1. CASE OnIdle
  BY <1>1 DEF OnIdle
<1>2. ASSUME NEW c \in Conn, KickIdle(c) \/ RemoteClose(c) PROVE FALSE
  BY <1>2 DEF KickIdle, RemoteClose
<1>3. ASSUME NEW c \in Conn, Strand(c) PROVE target = 0 \/ Height >= target
  <2> DEFINE goal == IF target = 0 THEN Height ELSE target
  <2>1. ASSUME NEW x, NEW initial, SyncData(c, x, initial) PROVE target = 0 \/ Height >= target
    <3>1. goal = Height
      BY <2>1 DEF SyncData
    <3> QED BY <3>1, InvFacts
  <2>2. CASE Connect(c) \/ TimedSync(c)
    BY <2>1, <2>2 DEF Connect, TimedSync
  <2>3. CASE Decide(c)
    BY <2>3 DEF Decide, Nothing, Fail
  <2>4. CASE Select(c)
    BY <2>4 DEF Select, SelectSpan, SelectChain, AskObjects, Nothing, Fail
  <2>5. CASE \/ CheckStandby(c) \/ OnCallback(c) \/ Deliver(c) \/ TryLock(c) \/ NextSpan(c)
             \/ VerifyBlock(c) \/ RemoveSpan(c) \/ StopAdding(c) \/ on_connection_close(c)
    BY <2>5 DEF CheckStandby, OnCallback, Deliver, TryLock, NextSpan, VerifyBlock, RemoveSpan,
                StopAdding, on_connection_close
  <2> QED BY <1>3, <2>2, <2>3, <2>4, <2>5 DEF Strand
<1> QED BY <1>1, <1>2, <1>3 DEF Next

(* The node marks itself synchronized only when no connected peer is ahead *)
(* of it, although target and height are read without a common lock.       *)
THEOREM SyncedOnlyWhenLevel == Spec => SyncedRight
<1>1. ASSUME Inv, [Next]_vars, ~synced, synced', NEW c \in Conn, link[c] # "closed"
      PROVE  remote(c) <= Height
  <2>1. Next
    BY <1>1 DEF vars
  <2>2. target = 0 \/ Height >= target
    BY <1>1, <2>1, MarkedAtTarget
  <2>3. remote(c) <= Larger(target, Height) /\ target \in Nat /\ Height \in Nat
    BY <1>1, RemoteType DEF Inv, TargetInv, TargetCoversPeers
  <2> QED BY <2>2, <2>3 DEF Larger
<1>2. Inv /\ [Next]_vars =>
        [~synced /\ synced' => \A c \in Conn : link[c] # "closed" => remote(c) <= Height]_vars
  BY <1>1
<1> QED BY <1>2, InitInv, NextInv, PTL DEF Spec, SyncedRight
=============================================================================
